---- MODULE Spec2Model ----
(***************************************************************************)
(* Resilient monitoring orchestrator of ai-search-monitor:                 *)
(*   RateLimiter     src/src/utils/rate-limiter.ts                         *)
(*   CircuitBreaker  src/unnamed/part_019 (utils/circuit-breaker)          *)
(*   retry           src/src/utils/retry.ts                                *)
(*   execute         src/src/core/mastra/workflows/monitoring.workflow.ts  *)
(* Each component has its own specification over its own variables; the    *)
(* orchestrator specification uses the same operators as the components.   *)
(***************************************************************************)
EXTENDS Integers, Sequences, FiniteSets, TLC

VARIABLES
  \* RateLimiter instance driven by an arbitrary caller
  rlNow, rlOptions, rlRequests, rlCalls, rlReset,
  \* CircuitBreaker instance driven by an arbitrary caller
  cbNow, cbOptions, cb, cbLast, cbFailRun, cbHalfSucc,
  \* one retry(fn, options) call driven by an arbitrary operation
  rt,
  \* one isRetryableError(error) call on an arbitrary error
  cls,
  \* one AnalyzerAgent.execute call on the mentions found in a response
  az,
  \* one calculateMentionStrength(contexts, brand) call
  ms,
  \* the process running monitoringWorkflow.execute: clock, module-level
  \* maps, environment (the request, the clients the repository holds and
  \* whether it answers), the call's locals and its client tasks
  wfNow, circuitBreakers, rateLimits, rateLimiters, input, repoClients,
  repoUp, hasAnalyzer, wfPc, clients, platforms, batch, task, errors, results,
  output, units, faults

rlVars == <<rlNow, rlOptions, rlRequests, rlCalls, rlReset>>
cbVars == <<cbNow, cbOptions, cb, cbLast, cbFailRun, cbHalfSucc>>
rtVars == <<rt>>
clVars == <<cls>>
azVars == <<az>>
msVars == <<ms>>
wfVars == <<wfNow, circuitBreakers, rateLimits, rateLimiters, input,
            repoClients, repoUp, hasAnalyzer, wfPc, clients, platforms,
            batch, task, errors,
            results, output, units, faults>>
vars == <<rlVars, cbVars, rtVars, clVars, azVars, msVars, wfVars>>

\* what a step of one component leaves alone
notRL == <<cbVars, rtVars, clVars, azVars, msVars, wfVars>>
notCB == <<rlVars, rtVars, clVars, azVars, msVars, wfVars>>
notRT == <<rlVars, cbVars, clVars, azVars, msVars, wfVars>>
notWF == <<rlVars, cbVars, rtVars, clVars, azVars, msVars>>
notCL == <<rlVars, cbVars, rtVars, azVars, msVars, wfVars>>
notAZ == <<rlVars, cbVars, rtVars, clVars, msVars, wfVars>>
notMS == <<rlVars, cbVars, rtVars, clVars, azVars, wfVars>>

----------------------------------------------------------------------------
(* Helpers *)

Max(a, b) == IF a >= b THEN a ELSE b
Min(a, b) == IF a <= b THEN a ELSE b

RECURSIVE SeqMin(_)
SeqMin(s) == IF Len(s) = 1 THEN s[1] ELSE Min(s[1], SeqMin(Tail(s)))

\* Array.prototype.filter with the predicate  time > windowStart
RECURSIVE FilterNewer(_, _)
FilterNewer(s, windowStart) ==
  IF s = <<>> THEN <<>>
  ELSE IF s[1] > windowStart
       THEN <<s[1]>> \o FilterNewer(Tail(s), windowStart)
       ELSE FilterNewer(Tail(s), windowStart)

----------------------------------------------------------------------------
(* RateLimiter (rate-limiter.ts) *)

\* Bounds of the stand-alone limiter specification
RLMaxRequests == 3
RLMaxWindow == 3
RLMaxClock == 6
RLMaxCalls == 5

\* a slip that keeps a timestamp aged exactly windowMs out of the count and
\* admits up to and including maxRequests remaining timestamps
TryAcquireOffByOne(requests, now, options) ==
  LET windowStart == now - options.windowMs
      kept == FilterNewer(requests, windowStart)
  IN IF Len(kept) <= options.maxRequests
     THEN [requests |-> Append(kept, now), ret |-> TRUE]
     ELSE [requests |-> kept, ret |-> FALSE]

\* a slip that filters with  time >= windowStart : a timestamp aged exactly
\* windowMs is still counted
TryAcquireKeepsEdge(requests, now, options) ==
  LET windowStart == now - options.windowMs
      kept == FilterNewer(requests, windowStart - 1)
  IN IF Len(kept) < options.maxRequests
     THEN [requests |-> Append(kept, now), ret |-> TRUE]
     ELSE [requests |-> kept, ret |-> FALSE]

\* tryAcquire(): the new request list and the returned boolean
TryAcquire(requests, now, options) ==
  LET windowStart == now - options.windowMs
      kept == FilterNewer(requests, windowStart)
  IN IF Len(kept) < options.maxRequests
     THEN [requests |-> Append(kept, now), ret |-> TRUE]
     ELSE [requests |-> kept, ret |-> FALSE]

\* a slip that leaves Math.max(0, ...) out
GetResetTimeNoFloor(requests, now, options) ==
  IF Len(requests) = 0 THEN 0
  ELSE SeqMin(requests) + options.windowMs - now

\* getResetTime()
GetResetTime(requests, now, options) ==
  IF Len(requests) = 0 THEN 0
  ELSE Max(0, SeqMin(requests) + options.windowMs - now)

\* rlReset logs the last getResetTime() call: its clock value, its result, the
\* stored list it read and the number of tryAcquire calls made before it
NoReset == [at |-> 0, ret |-> 0, requests |-> <<>>, calls |-> 0]

RLInit ==
  /\ rlNow = 1
  /\ rlOptions \in [maxRequests : 1..RLMaxRequests, windowMs : 1..RLMaxWindow]
  /\ rlRequests = <<>>
  /\ rlCalls = <<>>
  /\ rlReset = NoReset

RLIdle ==
  /\ rlNow = 0
  /\ rlOptions = [maxRequests |-> 1, windowMs |-> 1]
  /\ rlRequests = <<>>
  /\ rlCalls = <<>>
  /\ rlReset = NoReset

\* Date.now() moves forward between calls; rlCalls logs every call with its
\* clock value and result
RLTick ==
  /\ rlNow < RLMaxClock
  /\ rlNow' = rlNow + 1
  /\ UNCHANGED <<rlOptions, rlRequests, rlCalls, rlReset, notRL>>

RLTryAcquire ==
  /\ Len(rlCalls) < RLMaxCalls
  /\ LET r == TryAcquire(rlRequests, rlNow, rlOptions)
     IN /\ rlRequests' = r.requests
        /\ rlCalls' = Append(rlCalls, [at |-> rlNow, ret |-> r.ret])
  /\ UNCHANGED <<rlNow, rlOptions, rlReset, notRL>>

RLGetResetTime ==
  /\ rlReset' = [at |-> rlNow,
                 ret |-> GetResetTime(rlRequests, rlNow, rlOptions),
                 requests |-> rlRequests, calls |-> Len(rlCalls)]
  /\ UNCHANGED <<rlNow, rlOptions, rlRequests, rlCalls, notRL>>

RLNext == RLTick \/ RLTryAcquire \/ RLGetResetTime

----------------------------------------------------------------------------
(* CircuitBreaker (part_019) *)

\* Bounds of the stand-alone breaker specification
CBMaxThreshold == 5
CBMaxResetTimeout == 2
CBMaxHalfOpen == 2
CBMaxClock == 6
CBMaxFailures == 7

\* lastFailureTime: number | null = null  (no timestamp is negative)
Null == -1

\* new CircuitBreaker(options): the field initialisers
NewBreaker ==
  [state |-> "CLOSED", failureCount |-> 0, lastFailureTime |-> Null,
   halfOpenAttempts |-> 0]

\* JavaScript truthiness of lastFailureTime (number | null)
Truthy(t) == t # Null /\ t # 0

\* a slip that lets the breaker through as soon as resetTimeout is reached
IsOpenAtTimeout(b, now, options) ==
  IF b.state = "OPEN"
  THEN IF Truthy(b.lastFailureTime)
          /\ now - b.lastFailureTime >= options.resetTimeout
       THEN [breaker |-> [b EXCEPT !.state = "HALF_OPEN",
                                    !.halfOpenAttempts = 0],
             ret |-> FALSE]
       ELSE [breaker |-> b, ret |-> TRUE]
  ELSE [breaker |-> b, ret |-> FALSE]

\* a slip that lets only the request that found the timeout elapsed through:
\* a HALF_OPEN breaker answers true
IsOpenSingleProbe(b, now, options) ==
  IF b.state = "OPEN"
  THEN IF Truthy(b.lastFailureTime)
          /\ now - b.lastFailureTime > options.resetTimeout
       THEN [breaker |-> [b EXCEPT !.state = "HALF_OPEN",
                                    !.halfOpenAttempts = 0],
             ret |-> FALSE]
       ELSE [breaker |-> b, ret |-> TRUE]
  ELSE [breaker |-> b, ret |-> b.state = "HALF_OPEN"]

\* isOpen(): the breaker after the call and the returned boolean
IsOpen(b, now, options) ==
  IF b.state = "OPEN"
  THEN IF Truthy(b.lastFailureTime)
          /\ now - b.lastFailureTime > options.resetTimeout
       THEN [breaker |-> [b EXCEPT !.state = "HALF_OPEN",
                                    !.halfOpenAttempts = 0],
             ret |-> FALSE]
       ELSE [breaker |-> b, ret |-> TRUE]
  ELSE [breaker |-> b, ret |-> FALSE]

\* options.halfOpenRequests || 1   (0 stands for an absent or zero option)
RequiredSuccesses(options) ==
  IF options.halfOpenRequests = 0 THEN 1 ELSE options.halfOpenRequests

\* a slip that closes the breaker without clearing failureCount
RecordSuccessKeepCount(b, options) ==
  IF b.state = "HALF_OPEN"
  THEN IF b.halfOpenAttempts + 1 >= RequiredSuccesses(options)
       THEN [b EXCEPT !.state = "CLOSED", !.halfOpenAttempts = 0]
       ELSE [b EXCEPT !.halfOpenAttempts = b.halfOpenAttempts + 1]
  ELSE IF b.state = "CLOSED"
       THEN [b EXCEPT !.failureCount = Max(0, b.failureCount - 1)]
       ELSE b

\* a slip that forgives every counted failure on a success in CLOSED
RecordSuccessReset(b, options) ==
  IF b.state = "HALF_OPEN"
  THEN IF b.halfOpenAttempts + 1 >= RequiredSuccesses(options)
       THEN [b EXCEPT !.state = "CLOSED", !.failureCount = 0,
                      !.halfOpenAttempts = 0]
       ELSE [b EXCEPT !.halfOpenAttempts = b.halfOpenAttempts + 1]
  ELSE IF b.state = "CLOSED"
       THEN [b EXCEPT !.failureCount = 0]
       ELSE b

\* recordSuccess()
RecordSuccess(b, options) ==
  IF b.state = "HALF_OPEN"
  THEN IF b.halfOpenAttempts + 1 >= RequiredSuccesses(options)
       THEN [b EXCEPT !.state = "CLOSED", !.failureCount = 0,
                      !.halfOpenAttempts = 0]
       ELSE [b EXCEPT !.halfOpenAttempts = b.halfOpenAttempts + 1]
  ELSE IF b.state = "CLOSED"
       THEN [b EXCEPT !.failureCount = Max(0, b.failureCount - 1)]
       ELSE b

\* a slip that trips only above the threshold
RecordFailureAboveThreshold(b, now, options) ==
  LET counted == [b EXCEPT !.failureCount = b.failureCount + 1,
                           !.lastFailureTime = now]
  IN IF b.state = "HALF_OPEN"
     THEN [counted EXCEPT !.state = "OPEN", !.halfOpenAttempts = 0]
     ELSE IF counted.failureCount > options.failureThreshold
          THEN [counted EXCEPT !.state = "OPEN"]
          ELSE counted

\* a slip that keeps the successes counted in the interrupted HALF_OPEN period
RecordFailureKeepAttempts(b, now, options) ==
  LET counted == [b EXCEPT !.failureCount = b.failureCount + 1,
                           !.lastFailureTime = now]
  IN IF b.state = "HALF_OPEN"
     THEN [counted EXCEPT !.state = "OPEN"]
     ELSE IF counted.failureCount >= options.failureThreshold
          THEN [counted EXCEPT !.state = "OPEN"]
          ELSE counted

\* a slip that does not stamp the failure
RecordFailureNoTimestamp(b, now, options) ==
  LET counted == [b EXCEPT !.failureCount = b.failureCount + 1]
  IN IF b.state = "HALF_OPEN"
     THEN [counted EXCEPT !.state = "OPEN", !.halfOpenAttempts = 0]
     ELSE IF counted.failureCount >= options.failureThreshold
          THEN [counted EXCEPT !.state = "OPEN"]
          ELSE counted

\* recordFailure()
RecordFailure(b, now, options) ==
  LET counted == [b EXCEPT !.failureCount = b.failureCount + 1,
                           !.lastFailureTime = now]
  IN IF b.state = "HALF_OPEN"
     THEN [counted EXCEPT !.state = "OPEN", !.halfOpenAttempts = 0]
     ELSE IF counted.failureCount >= options.failureThreshold
          THEN [counted EXCEPT !.state = "OPEN"]
          ELSE counted

NoCall == [op |-> "none", ret |-> FALSE, pre |-> NewBreaker, at |-> 0, run |-> 0]

CBInit ==
  /\ cbNow = 1
  /\ cbOptions \in [failureThreshold : 1..CBMaxThreshold,
                    resetTimeout : 1..CBMaxResetTimeout,
                    halfOpenRequests : 0..CBMaxHalfOpen]
  /\ cb = NewBreaker
  /\ cbLast = NoCall
  /\ cbFailRun = 0
  /\ cbHalfSucc = 0

CBIdle ==
  /\ cbNow = 0
  /\ cbOptions = [failureThreshold |-> 1, resetTimeout |-> 1,
                  halfOpenRequests |-> 0]
  /\ cb = NewBreaker
  /\ cbLast = NoCall
  /\ cbFailRun = 0
  /\ cbHalfSucc = 0

CBTick ==
  /\ cbNow < CBMaxClock
  /\ cbNow' = cbNow + 1
  /\ UNCHANGED <<cbOptions, cb, cbLast, cbFailRun, cbHalfSucc, notCB>>

\* cbLast: the last call, the breaker before it and its result.
\* cbFailRun: number of calls so far when all of them were recordFailure()
\* (-1 once another method has been called); cbLast.run is its value before
\* the call.  cbHalfSucc: recordSuccess() calls since HALF_OPEN was entered.
CBIsOpen ==
  /\ LET r == IsOpen(cb, cbNow, cbOptions)
     IN /\ cb' = r.breaker
        /\ cbLast' = [op |-> "isOpen", ret |-> r.ret, pre |-> cb, at |-> cbNow,
                    run |-> cbFailRun]
        /\ cbHalfSucc' = IF cb.state = "OPEN" /\ ~r.ret THEN 0 ELSE cbHalfSucc
  /\ cbFailRun' = -1
  /\ UNCHANGED <<cbNow, cbOptions, notCB>>

CBRecordSuccess ==
  /\ cb' = RecordSuccess(cb, cbOptions)
  /\ cbLast' = [op |-> "recordSuccess", ret |-> FALSE, pre |-> cb, at |-> cbNow,
                    run |-> cbFailRun]
  /\ cbFailRun' = -1
  /\ cbHalfSucc' = IF cb.state = "HALF_OPEN" THEN cbHalfSucc + 1 ELSE cbHalfSucc
  /\ UNCHANGED <<cbNow, cbOptions, notCB>>

CBRecordFailure ==
  /\ cb.failureCount < CBMaxFailures
  /\ cb' = RecordFailure(cb, cbNow, cbOptions)
  /\ cbLast' = [op |-> "recordFailure", ret |-> FALSE, pre |-> cb, at |-> cbNow,
                    run |-> cbFailRun]
  /\ cbFailRun' = IF cbFailRun >= 0 THEN cbFailRun + 1 ELSE cbFailRun
  /\ UNCHANGED <<cbNow, cbOptions, cbHalfSucc, notCB>>

CBNext == CBTick \/ CBIsOpen \/ CBRecordSuccess \/ CBRecordFailure

----------------------------------------------------------------------------
(* retry (retry.ts) *)

\* Bounds of the stand-alone retry specification
RTMaxAttempts == 3
RTMaxDelay == 2
RTMaxCap == 3

\* let lastError: Error  (not assigned yet)
Undefined == [tag |-> "undefined", n |-> 0]

\* the strings isRetryableError looks for in error.message and error.code, in
\* the order of the array
RetryableErrorList ==
  <<"TIMEOUT", "ETIMEDOUT", "ECONNRESET", "ECONNREFUSED", "NETWORK_ERROR",
    "RATE_LIMIT", "TEMPORARY_FAILURE", "429", "503", "504">>
RetryableErrors == {RetryableErrorList[i] : i \in DOMAIN RetryableErrorList}

\* Bounds of the classification specification: words of an error's message
\* and of its string code
MaxMessageWords == 2
MaxCodeWords == 1

\* A string is the sequence of its words, '' is <<>>; a word is one of the
\* strings of the array or a word that contains none of them.
Words == RetryableErrors \cup {"OTHER"}

\* String.prototype.includes(type) for a type that is one word
Includes(string, type) == \E i \in DOMAIN string : string[i] = type

\* (error as any).code : absent, a string or a number
NoCode == [kind |-> "absent", words |-> <<>>, num |-> 0]
StringCode(words) == [kind |-> "string", words |-> words, num |-> 0]
NumberCode(num) == [kind |-> "number", words |-> <<>>, num |-> num]

\* (error as any).code || '' : an absent code, '' and 0 become ''; a non-zero
\* number stays a number, which has no includes method
CodeOrEmpty(code) ==
  IF code.kind = "number" /\ code.num # 0 THEN code ELSE StringCode(code.words)

\* retryableErrors.some(type => errorMessage.includes(type) ||
\*   errorCode.includes(type) || errorCode === type), from index i on:
\* "true", "false", or "TypeError" when errorCode.includes is not a function
RECURSIVE SomeRetryable(_, _, _)
SomeRetryable(errorMessage, errorCode, i) ==
  IF i > Len(RetryableErrorList) THEN "false"
  ELSE LET type == RetryableErrorList[i]
       IN IF Includes(errorMessage, type) THEN "true"
          ELSE IF errorCode.kind = "number" THEN "TypeError"
          ELSE IF Includes(errorCode.words, type)
                  \/ errorCode.words = <<type>>
               THEN "true"
               ELSE SomeRetryable(errorMessage, errorCode, i + 1)

\* isRetryableError(error) for an error [message, code]
Classify(error) ==
  SomeRetryable(error.message, CodeOrEmpty(error.code), 1)

\* isRetryableError(error) for the errors of the retry and orchestrator
\* specifications; such an error is [tag, n]: tag is the one word of its
\* message ("OTHER" when it carries no signature), it has no code, and n is
\* the invocation that threw it
IsRetryableError(error) ==
  Classify([message |-> <<error.tag>>, code |-> NoCode]) = "true"

RECURSIVE Pow2(_)
Pow2(k) == IF k = 0 THEN 1 ELSE 2 * Pow2(k - 1)

\* maxDelay?: number  left out of the options
NoMaxDelay == -1

\* options.maxDelay || 60000 : an absent maxDelay and a maxDelay of 0 are both
\* falsy
DefaultMaxDelay == 60000
MaxDelayOf(options) ==
  IF options.maxDelay = NoMaxDelay \/ options.maxDelay = 0
  THEN DefaultMaxDelay
  ELSE options.maxDelay

\* the sleep after failed attempt number attempt
RetryDelay(options, attempt) ==
  IF options.backoff = "exponential"
  THEN Min(options.delay * Pow2(attempt - 1), MaxDelayOf(options))
  ELSE IF options.backoff = "linear"
       THEN Min(options.delay * attempt, MaxDelayOf(options))
       ELSE options.delay

\* retry(fn, options) entered: nothing invoked yet.  calls, outcomes, onRetry
\* and sleeps log what the call has done so far.
RetryStart(options) ==
  [options |-> options, attempt |-> 1, pc |-> "loop", lastError |-> Undefined,
   result |-> 0, thrown |-> Undefined, calls |-> 0, outcomes |-> <<>>,
   onRetry |-> <<>>, sleeps |-> <<>>]

\* the loop test  attempt <= options.attempts : invoke fn(), or leave the loop
\* and throw lastError
RetryLoop(r) ==
  IF r.attempt <= r.options.attempts
  THEN [r EXCEPT !.pc = "calling", !.calls = r.calls + 1]
  ELSE [r EXCEPT !.pc = "thrown", !.thrown = r.lastError]

\* a slip that sleeps once more after the last attempt has failed
RetrySettleNoLastCheck(r, outcome) ==
  LET logged == [r EXCEPT !.outcomes = Append(r.outcomes, outcome)]
  IN IF outcome.ok
     THEN [logged EXCEPT !.pc = "returned", !.result = outcome.value]
     ELSE LET caught == [logged EXCEPT !.lastError = outcome.error]
          IN IF r.options.retryCondition /\ ~IsRetryableError(outcome.error)
             THEN [caught EXCEPT !.pc = "thrown", !.thrown = outcome.error]
             ELSE [caught EXCEPT
                     !.pc = "sleeping",
                     !.onRetry =
                        IF r.options.onRetry
                        THEN Append(r.onRetry,
                                    [error |-> outcome.error,
                                     attempt |-> r.attempt])
                        ELSE r.onRetry,
                     !.sleeps = Append(r.sleeps,
                                       RetryDelay(r.options, r.attempt))]

\* a slip that never consults retryCondition
RetrySettleIgnoreCondition(r, outcome) ==
  LET logged == [r EXCEPT !.outcomes = Append(r.outcomes, outcome)]
  IN IF outcome.ok
     THEN [logged EXCEPT !.pc = "returned", !.result = outcome.value]
     ELSE LET caught == [logged EXCEPT !.lastError = outcome.error]
          IN IF r.attempt = r.options.attempts
             THEN [caught EXCEPT !.pc = "thrown", !.thrown = outcome.error]
             ELSE [caught EXCEPT
                     !.pc = "sleeping",
                     !.onRetry =
                        IF r.options.onRetry
                        THEN Append(r.onRetry,
                                    [error |-> outcome.error,
                                     attempt |-> r.attempt])
                        ELSE r.onRetry,
                     !.sleeps = Append(r.sleeps,
                                       RetryDelay(r.options, r.attempt))]

\* a slip that calls onRetry before the last-attempt check, so also after the
\* last attempt has failed
RetrySettleEagerOnRetry(r, outcome) ==
  LET logged == [r EXCEPT !.outcomes = Append(r.outcomes, outcome)]
  IN IF outcome.ok
     THEN [logged EXCEPT !.pc = "returned", !.result = outcome.value]
     ELSE LET caught == [logged EXCEPT !.lastError = outcome.error]
              told == [caught EXCEPT
                         !.onRetry =
                            IF r.options.onRetry
                            THEN Append(r.onRetry,
                                        [error |-> outcome.error,
                                         attempt |-> r.attempt])
                            ELSE r.onRetry]
          IN IF r.options.retryCondition /\ ~IsRetryableError(outcome.error)
             THEN [caught EXCEPT !.pc = "thrown", !.thrown = outcome.error]
             ELSE IF r.attempt = r.options.attempts
                  THEN [told EXCEPT !.pc = "thrown", !.thrown = outcome.error]
                  ELSE [told EXCEPT
                          !.pc = "sleeping",
                          !.sleeps = Append(r.sleeps,
                                            RetryDelay(r.options, r.attempt))]

\* fn() settled with outcome [ok, value, error]
RetrySettle(r, outcome) ==
  LET logged == [r EXCEPT !.outcomes = Append(r.outcomes, outcome)]
  IN IF outcome.ok
     THEN [logged EXCEPT !.pc = "returned", !.result = outcome.value]
     ELSE LET caught == [logged EXCEPT !.lastError = outcome.error]
          IN IF r.options.retryCondition /\ ~IsRetryableError(outcome.error)
             THEN [caught EXCEPT !.pc = "thrown", !.thrown = outcome.error]
             ELSE IF r.attempt = r.options.attempts
                  THEN [caught EXCEPT !.pc = "thrown",
                                      !.thrown = outcome.error]
                  ELSE [caught EXCEPT
                          !.pc = "sleeping",
                          !.onRetry =
                             IF r.options.onRetry
                             THEN Append(r.onRetry,
                                         [error |-> outcome.error,
                                          attempt |-> r.attempt])
                             ELSE r.onRetry,
                          !.sleeps = Append(r.sleeps,
                                            RetryDelay(r.options, r.attempt))]

\* a slip that forgets attempt++ when the timer has fired
RetryWakeSameAttempt(r) == RetryLoop(r)

\* the timer fired: attempt++ and the loop test
RetryWake(r) == RetryLoop([r EXCEPT !.attempt = r.attempt + 1])

\* what invocation number n of the operation can do
Outcomes(n) ==
  {[ok |-> TRUE, value |-> n, error |-> Undefined]} \cup
  {[ok |-> FALSE, value |-> 0, error |-> [tag |-> t, n |-> n]] :
     t \in {"TIMEOUT", "OTHER"}}

RTInit ==
  \E o \in [attempts : 0..RTMaxAttempts, delay : 1..RTMaxDelay,
            backoff : {"none", "linear", "exponential"},
            maxDelay : {NoMaxDelay, 0, RTMaxCap},
            retryCondition : BOOLEAN, onRetry : BOOLEAN] :
    rt = RetryStart(o)

\* no retry call in progress
NoRetry ==
  [RetryStart([attempts |-> 0, delay |-> 0, backoff |-> "none",
               maxDelay |-> NoMaxDelay, retryCondition |-> FALSE,
               onRetry |-> FALSE]) EXCEPT !.pc = "idle"]

RTIdle == rt = NoRetry

\* the errors isRetryableError is called with
RECURSIVE WordSeqs(_)
WordSeqs(n) ==
  IF n = 0 THEN {<<>>}
  ELSE WordSeqs(n - 1) \cup
       {Append(s, w) : s \in {x \in WordSeqs(n - 1) : Len(x) = n - 1},
                       w \in Words}

HttpStatus == {0, 429, 500, 503, 504}

ClassifyInputs ==
  [message : WordSeqs(MaxMessageWords),
   code : {NoCode} \cup {StringCode(w) : w \in WordSeqs(MaxCodeWords)}
                   \cup {NumberCode(n) : n \in HttpStatus}]

CLInit == \E e \in ClassifyInputs : cls = [error |-> e, ret |-> "pending"]

\* no isRetryableError call outside retry
CLIdle == cls = [error |-> [message |-> <<>>, code |-> NoCode], ret |-> "idle"]

CLClassify ==
  /\ cls.ret = "pending"
  /\ cls' = [cls EXCEPT !.ret = Classify(cls.error)]
  /\ UNCHANGED notCL

CLNext == CLClassify

RTEnter ==
  /\ rt.pc = "loop"
  /\ rt' = RetryLoop(rt)
  /\ UNCHANGED notRT

RTSettle ==
  /\ rt.pc = "calling"
  /\ \E o \in Outcomes(rt.calls) : rt' = RetrySettle(rt, o)
  /\ UNCHANGED notRT

RTWake ==
  /\ rt.pc = "sleeping"
  /\ rt' = RetryWake(rt)
  /\ UNCHANGED notRT

RTNext == RTEnter \/ RTSettle \/ RTWake

----------------------------------------------------------------------------
(* AnalyzerAgent (part_011) *)

\* Bounds of the analyzer specification: brands and competitors found in a
\* response and matches of one name
MaxBrands == 2
MaxCompetitors == 1
MaxMatches == 3

\* match.index values a response offers, and the labels
\* analyzeMentionSentiment gives a mention
MatchIndexes == {0, 1000, 4000}
Sentiments == {"positive", "neutral", "negative"}

\* "assuming average text length of 5000 chars"
AverageTextLength == 5000

RECURSIVE SeqSum(_)
SeqSum(s) == IF s = <<>> THEN 0 ELSE s[1] + SeqSum(Tail(s))

RECURSIVE SeqMax(_)
SeqMax(s) == IF Len(s) = 1 THEN s[1] ELSE Max(s[1], SeqMax(Tail(s)))

\* matches.map(match => match.index || 0): the indexes of up to n matches of
\* one name, in text order
RECURSIVE IndexSeqs(_)
IndexSeqs(n) ==
  IF n = 0 THEN {<<>>}
  ELSE IndexSeqs(n - 1) \cup
       {Append(s, i) : s \in {x \in IndexSeqs(n - 1) : Len(x) = n - 1},
                       i \in MatchIndexes}

Increasing(s) == \A i, j \in DOMAIN s : i < j => s[i] < s[j]

\* the entries analyzeBrandMentions pushes (only for matches.length > 0),
\* without contexts and strength, which the scores do not read
BrandMentions ==
  {[count |-> Len(p), positions |-> p, sentiment |-> l] :
     p \in {x \in IndexSeqs(MaxMatches) : x # <<>> /\ Increasing(x)},
     l \in Sentiments}

\* the entries analyzeCompetitorMentions pushes; the scores read only count
CompetitorMentions == {[count |-> n] : n \in 1..MaxMatches}

RECURSIVE SeqsOver(_, _)
SeqsOver(set, n) ==
  IF n = 0 THEN {<<>>}
  ELSE SeqsOver(set, n - 1) \cup
       {Append(s, e) : s \in {x \in SeqsOver(set, n - 1) : Len(x) = n - 1},
                       e \in set}

\* mentions.reduce((sum, m) => sum + m.count, 0)
RECURSIVE TotalCount(_)
TotalCount(mentions) ==
  IF mentions = <<>> THEN 0
  ELSE mentions[1].count + TotalCount(Tail(mentions))

\* the switch of analyzeSentiment: the counts added to one of the three sums
\* (`default` takes every label that is neither positive nor negative)
RECURSIVE CountLabelled(_, _)
CountLabelled(mentions, label) ==
  IF mentions = <<>> THEN 0
  ELSE (IF (IF mentions[1].sentiment \in {"positive", "negative"}
            THEN mentions[1].sentiment ELSE "neutral") = label
        THEN mentions[1].count ELSE 0)
       + CountLabelled(Tail(mentions), label)

\* a slip that leaves the neutral mentions out of the total
AnalyzeSentimentNoNeutral(brandMentions) ==
  LET positive == CountLabelled(brandMentions, "positive")
      neutral == CountLabelled(brandMentions, "neutral")
      negative == CountLabelled(brandMentions, "negative")
      total == positive + negative
  IN IF total = 0
     THEN [overall |-> "neutral", score |-> [num |-> 0, den |-> 1]]
     ELSE [overall |->
             IF 10 * (positive - negative) > 3 * total THEN "positive"
             ELSE IF 10 * (positive - negative) < -3 * total THEN "negative"
                  ELSE "neutral",
           score |-> [num |-> positive - negative, den |-> total]]

\* analyzeSentiment(result, brandMentions).  score is the fraction num / den;
\* score > 0.3 is 10 * num > 3 * den, score < -0.3 is 10 * num < -3 * den
AnalyzeSentiment(brandMentions) ==
  LET positive == CountLabelled(brandMentions, "positive")
      neutral == CountLabelled(brandMentions, "neutral")
      negative == CountLabelled(brandMentions, "negative")
      total == positive + neutral + negative
  IN IF total = 0
     THEN [overall |-> "neutral", score |-> [num |-> 0, den |-> 1]]
     ELSE [overall |->
             IF 10 * (positive - negative) > 3 * total THEN "positive"
             ELSE IF 10 * (positive - negative) < -3 * total THEN "negative"
                  ELSE "neutral",
           score |-> [num |-> positive - negative, den |-> total]]

\* brandMentions.flatMap(m => m.positions)
RECURSIVE AllPositions(_)
AllPositions(mentions) ==
  IF mentions = <<>> THEN <<>>
  ELSE mentions[1].positions \o AllPositions(Tail(mentions))

\* analyzePosition(brandMentions).  averagePosition is sum / n;
\* averagePosition / 5000 < k / 10 is 10 * sum < k * 5000 * n
AnalyzePosition(brandMentions) ==
  LET allPositions == AllPositions(brandMentions)
      sum == SeqSum(allPositions)
      n == Len(allPositions)
      below(k) == 10 * sum < k * AverageTextLength * n
  IN IF brandMentions = <<>> \/ allPositions = <<>>
     THEN [averagePosition |-> [num |-> -1, den |-> 1],
           firstMentionPosition |-> -1, lastMentionPosition |-> -1,
           relativePosition |-> "end"]
     ELSE [averagePosition |-> [num |-> sum, den |-> n],
           firstMentionPosition |-> SeqMin(allPositions),
           lastMentionPosition |-> SeqMax(allPositions),
           relativePosition |->
             IF below(2) THEN "beginning"
             ELSE IF below(4) THEN "early"
             ELSE IF below(6) THEN "middle"
             ELSE IF below(8) THEN "late"
             ELSE "end"]

\* a slip that leaves Math.min(..., 25) out of the mention count factor
CalculateVisibilityScoreNoCap(brandMentions, competitorMentions, sentiment, position) ==
  LET totalBrandMentions == TotalCount(brandMentions)
      totalCompetitorMentions == TotalCount(competitorMentions)
      mentionCount == totalBrandMentions * 5
      positionScore ==
        IF position.relativePosition = "beginning" THEN 25
        ELSE IF position.relativePosition = "early" THEN 20
        ELSE IF position.relativePosition = "middle" THEN 15
        ELSE IF position.relativePosition = "late" THEN 10
        ELSE 5
      sentimentScore ==
        IF sentiment.overall = "positive" THEN 25
        ELSE IF sentiment.overall = "neutral" THEN 15 ELSE 5
      competitorComparison ==
        IF totalBrandMentions > totalCompetitorMentions THEN 25
        ELSE IF totalBrandMentions = totalCompetitorMentions THEN 15 ELSE 5
  IN [score |-> mentionCount + positionScore + sentimentScore
                + competitorComparison,
      factors |-> [mentionCount |-> mentionCount,
                   positionScore |-> positionScore,
                   sentimentScore |-> sentimentScore,
                   competitorComparison |-> competitorComparison]]

\* calculateVisibilityScore(brandMentions, competitorMentions, sentiment,
\* position)
CalculateVisibilityScore(brandMentions, competitorMentions, sentiment, position) ==
  LET totalBrandMentions == TotalCount(brandMentions)
      totalCompetitorMentions == TotalCount(competitorMentions)
      mentionCount == Min(totalBrandMentions * 5, 25)
      positionScore ==
        IF position.relativePosition = "beginning" THEN 25
        ELSE IF position.relativePosition = "early" THEN 20
        ELSE IF position.relativePosition = "middle" THEN 15
        ELSE IF position.relativePosition = "late" THEN 10
        ELSE 5
      sentimentScore ==
        IF sentiment.overall = "positive" THEN 25
        ELSE IF sentiment.overall = "neutral" THEN 15 ELSE 5
      competitorComparison ==
        IF totalBrandMentions > totalCompetitorMentions THEN 25
        ELSE IF totalBrandMentions = totalCompetitorMentions THEN 15 ELSE 5
  IN [score |-> mentionCount + positionScore + sentimentScore
                + competitorComparison,
      factors |-> [mentionCount |-> mentionCount,
                   positionScore |-> positionScore,
                   sentimentScore |-> sentimentScore,
                   competitorComparison |-> competitorComparison]]

\* the two strings each block of generateRecommendations pushes
LowVisibilityAdvice ==
  <<"Increase brand presence through more comprehensive content",
    "Consider creating dedicated FAQ sections about your brand">>
RepositionAdvice ==
  <<"Optimize content to appear earlier in AI responses",
    "Focus on primary keywords and main value propositions">>
NegativeSentimentAdvice ==
  <<"Address negative perceptions through improved messaging",
    "Create positive case studies and success stories">>
CompetitorAdvice ==
  <<"Strengthen competitive positioning",
    "Highlight unique differentiators more prominently">>
NoMentionsAdvice ==
  <<"Critical: No brand mentions detected",
    "Urgent need for brand awareness campaign">>

\* visibility.score < 30
LowVisibility == 30

\* a slip that reports the missing mentions before anything else
GenerateRecommendationsCriticalFirst(brandMentions, competitorMentions, sentiment, position, visibility) ==
  (IF brandMentions = <<>> THEN NoMentionsAdvice ELSE <<>>)
  \o (IF visibility.score < LowVisibility THEN LowVisibilityAdvice ELSE <<>>)
  \o (IF position.relativePosition \in {"late", "end"}
      THEN RepositionAdvice ELSE <<>>)
  \o (IF sentiment.overall = "negative"
      THEN NegativeSentimentAdvice ELSE <<>>)
  \o (IF TotalCount(competitorMentions) > TotalCount(brandMentions)
      THEN CompetitorAdvice ELSE <<>>)

\* generateRecommendations(brandMentions, competitorMentions, sentiment,
\* position, visibility)
GenerateRecommendations(brandMentions, competitorMentions, sentiment, position, visibility) ==
  (IF visibility.score < LowVisibility THEN LowVisibilityAdvice ELSE <<>>)
  \o (IF position.relativePosition \in {"late", "end"}
      THEN RepositionAdvice ELSE <<>>)
  \o (IF sentiment.overall = "negative"
      THEN NegativeSentimentAdvice ELSE <<>>)
  \o (IF TotalCount(competitorMentions) > TotalCount(brandMentions)
      THEN CompetitorAdvice ELSE <<>>)
  \o (IF brandMentions = <<>> THEN NoMentionsAdvice ELSE <<>>)

\* results execute has not computed yet
NoSentiment == [overall |-> "-", score |-> [num |-> 0, den |-> 1]]
NoPosition ==
  [averagePosition |-> [num |-> 0, den |-> 1], firstMentionPosition |-> 0,
   lastMentionPosition |-> 0, relativePosition |-> "-"]
NoVisibility ==
  [score |-> 0,
   factors |-> [mentionCount |-> 0, positionScore |-> 0, sentimentScore |-> 0,
                competitorComparison |-> 0]]

\* execute has found the brand and competitor mentions of a response
AZInit ==
  \E b \in SeqsOver(BrandMentions, MaxBrands),
     c \in SeqsOver(CompetitorMentions, MaxCompetitors) :
    az = [pc |-> "mentions", brandMentions |-> b, competitorMentions |-> c,
          sentiment |-> NoSentiment, position |-> NoPosition,
          visibility |-> NoVisibility, recommendations |-> <<>>]

\* no analysis in progress
AZIdle ==
  az = [pc |-> "idle", brandMentions |-> <<>>, competitorMentions |-> <<>>,
        sentiment |-> NoSentiment, position |-> NoPosition,
        visibility |-> NoVisibility, recommendations |-> <<>>]

\* const sentiment = this.analyzeSentiment(input.result, brandMentions)
AZSentiment ==
  /\ az.pc = "mentions"
  /\ az' = [az EXCEPT !.pc = "sentiment",
                      !.sentiment = AnalyzeSentiment(az.brandMentions)]
  /\ UNCHANGED notAZ

\* const position = this.analyzePosition(brandMentions)
AZPosition ==
  /\ az.pc = "sentiment"
  /\ az' = [az EXCEPT !.pc = "position",
                      !.position = AnalyzePosition(az.brandMentions)]
  /\ UNCHANGED notAZ

\* const visibility = this.calculateVisibilityScore(...)
AZVisibility ==
  /\ az.pc = "position"
  /\ az' = [az EXCEPT
              !.pc = "visibility",
              !.visibility =
                 CalculateVisibilityScore(az.brandMentions,
                                          az.competitorMentions,
                                          az.sentiment, az.position)]
  /\ UNCHANGED notAZ

\* const recommendations = this.generateRecommendations(...)
AZRecommend ==
  /\ az.pc = "visibility"
  /\ az' = [az EXCEPT
              !.pc = "recommendations",
              !.recommendations =
                 GenerateRecommendations(az.brandMentions,
                                         az.competitorMentions, az.sentiment,
                                         az.position, az.visibility)]
  /\ UNCHANGED notAZ

AZNext == AZSentiment \/ AZPosition \/ AZVisibility \/ AZRecommend

\* Bound of the mention strength specification: contexts of one brand (one
\* per match)
MaxContexts == 3

\* What calculateMentionStrength reads of a context: whether it matches
\* /highly recommend|strongly recommend|best choice|top choice/i, whether it
\* opens with the brand (startsWith), else matches `^${brand}\s+(is|are)`,
\* else neither, and whether it matches /better than|superior to|outperforms/i
Contexts ==
  [endorses : BOOLEAN, opens : {"startsWith", "regex", "no"}, wins : BOOLEAN]

\* new RegExp(`^${brand}\\s+(is|are)`, 'i') takes the brand unescaped: a
\* brand such as "C++" is not a valid pattern and the constructor throws
Brands == {"plain", "invalid pattern"}

BaseStrength == 50
MaxStrength == 100

\* contexts.forEach(...) from context i on, with the strength reached so far:
\* [threw, strength]
RECURSIVE ForEachContext(_, _, _, _)
ForEachContext(contexts, brand, i, strength) ==
  IF i > Len(contexts) THEN [threw |-> FALSE, strength |-> strength]
  ELSE LET context == contexts[i]
           endorsed == strength + (IF context.endorses THEN 10 ELSE 0)
       IN IF context.opens # "startsWith" /\ brand = "invalid pattern"
          THEN [threw |-> TRUE, strength |-> 0]
          ELSE ForEachContext(contexts, brand, i + 1,
                              endorsed
                              + (IF context.opens # "no" THEN 5 ELSE 0)
                              + (IF context.wins THEN 5 ELSE 0))

\* a slip that leaves Math.min(strength, 100) out
CalculateMentionStrengthNoCap(contexts, brand) ==
  ForEachContext(contexts, brand, 1, BaseStrength)

\* calculateMentionStrength(contexts, brand)
CalculateMentionStrength(contexts, brand) ==
  LET r == ForEachContext(contexts, brand, 1, BaseStrength)
  IN [r EXCEPT !.strength = Min(r.strength, MaxStrength)]

\* analyzeBrandMentions calls it with the contexts of matches.length > 0
\* matches
MSInit ==
  \E c \in {x \in SeqsOver(Contexts, MaxContexts) : x # <<>>},
     b \in Brands :
    ms = [pc |-> "called", contexts |-> c, brand |-> b, threw |-> FALSE,
          strength |-> 0]

\* no calculateMentionStrength call
MSIdle ==
  ms = [pc |-> "idle", contexts |-> <<>>, brand |-> "plain", threw |-> FALSE,
        strength |-> 0]

MSCalculate ==
  /\ ms.pc = "called"
  /\ LET r == CalculateMentionStrength(ms.contexts, ms.brand)
     IN ms' = [ms EXCEPT !.pc = IF r.threw THEN "thrown" ELSE "returned",
                         !.threw = r.threw, !.strength = r.strength]
  /\ UNCHANGED notMS

MSNext == MSCalculate

----------------------------------------------------------------------------
(* monitoringWorkflow.execute (monitoring.workflow.ts) *)

\* Bounds of the orchestrator specification: clients the repository holds,
\* WorkUnits (clients x platforms) of one request, the clock at the call,
\* failing scrape and analysis invocations in one run, and for the requests
\* whose clients run concurrently their maxRetries and failing invocations
MaxClients == 2
MaxUnits == 4
StartClock == 100000
MaxFaults == 4
MaxConcurrentRetries == 1
MaxConcurrentFaults == 1
MaxBatchClients == 6
MaxBatchRetries == 2
MaxBatchFaults == 0

\* the ids of the clients the repository holds: a task, and per platform a
\* WorkUnit, exists for no other client
ClientIds == {repoClients[i] : i \in DOMAIN repoClients}
AllPlatforms == <<"chatgpt", "perplexity", "gemini", "claude", "google-ai">>
Platforms == {AllPlatforms[i] : i \in DOMAIN AllPlatforms}

\* breakerKey = `${client.id}-${platform}`
BreakerKey(clientId, platform) == <<clientId, platform>>
Keys == ClientIds \X Platforms

\* new CircuitBreaker({failureThreshold: 5, resetTimeout: 60000,
\*                     halfOpenRequests: 2})
BreakerOptions ==
  [failureThreshold |-> 5, resetTimeout |-> 60000, halfOpenRequests |-> 2]

\* the options execute passes to retry
ScrapeRetryOptions(maxRetries) ==
  [attempts |-> maxRetries, delay |-> 2000, backoff |-> "exponential",
   maxDelay |-> 30000, retryCondition |-> TRUE, onRetry |-> TRUE]

\* parseInt(process.env.<PLATFORM>_RATE_LIMIT || default)
DefaultRateLimit ==
  [p \in Platforms |->
     CASE p = "chatgpt" -> 10
       [] p = "perplexity" -> 20
       [] p = "gemini" -> 15
       [] p = "claude" -> 10
       [] p = "google-ai" -> 25]

\* parseInt(process.env.RATE_LIMIT_WINDOW_MS || '60000')
DefaultWindowMs == 60000

\* maxRetries: z.number().min(0).max(5), timeout: z.number().min(1000)
\* .max(300000)
MaxRetriesLimit == 5
MinTimeout == 1000
MaxTimeout == 300000

\* a slip that leaves .max(5) out of the schema
ValidatesNoMax(request) ==
  /\ \A i \in DOMAIN request.platforms : request.platforms[i] \in Platforms
  /\ request.priority \in {"high", "medium", "low"}
  /\ request.retryOnFailure \in BOOLEAN
  /\ request.maxRetries >= 0
  /\ request.timeout >= MinTimeout /\ request.timeout <= MaxTimeout

\* MonitoringInputSchema.parse(input) does not throw (the request record
\* carries the schema's defaults for the fields the caller left out)
Validates(request) ==
  /\ \A i \in DOMAIN request.platforms : request.platforms[i] \in Platforms
  /\ request.priority \in {"high", "medium", "low"}
  /\ request.retryOnFailure \in BOOLEAN
  /\ request.maxRetries >= 0 /\ request.maxRetries <= MaxRetriesLimit
  /\ request.timeout >= MinTimeout /\ request.timeout <= MaxTimeout

\* a slip that swaps the widths of 'high' and 'medium'
ConcurrencySwapped(priority) ==
  IF priority = "high" THEN 3 ELSE IF priority = "medium" THEN 5 ELSE 1

\* priority === 'high' ? 5 : priority === 'medium' ? 3 : 1
Concurrency(priority) ==
  IF priority = "high" THEN 5 ELSE IF priority = "medium" THEN 3 ELSE 1

\* chunkArray(array, size)
RECURSIVE ChunkArray(_, _)
ChunkArray(array, size) ==
  IF array = <<>> THEN <<>>
  ELSE IF Len(array) <= size THEN <<array>>
       ELSE <<SubSeq(array, 1, size)>>
            \o ChunkArray(SubSeq(array, size + 1, Len(array)), size)

ClientBatchesFor(request) ==
  ChunkArray(clients, Concurrency(request.priority))
ClientBatches == ClientBatchesFor(input)

\* Map.has / Map.set on circuitBreakers
MapHas(m, key) == key \in DOMAIN m
MapSet(m, key, value) ==
  [k \in DOMAIN m \cup {key} |-> IF k = key THEN value ELSE m[k]]

\* entries of the errors array, without their `timestamp: new Date()`; a
\* field an entry does not have is NoClient, NoPlatform or NoResetTime
NoClient == 0
NoPlatform == "-"
NoResetTime == -1
ErrorEntry(clientId, platform, message, resetTime) ==
  [clientId |-> clientId, platform |-> platform, error |-> message,
   resetTime |-> resetTime]

\* error.message of `undefined`: the property access itself throws
TypeErrorMessage == "Cannot read properties of undefined (reading 'message')"

\* a client task that has not been started
IdleTask ==
  [pc |-> "idle", pi |-> 0, clientResults |-> <<>>, rt |-> NoRetry,
   caught |-> Undefined, wakeAt |-> 0, reason |-> ""]

\* a slip that maps over every client instead of the batch
StartTasksNoChunk(t, clientBatch) ==
  [c \in ClientIds |->
     IF t[c].pc = "idle" THEN [IdleTask EXCEPT !.pc = "loop", !.pi = 1]
     ELSE t[c]]

\* batch.map(async (client) => { const clientResults = []; for (...) ... })
StartTasks(t, clientBatch) ==
  [c \in ClientIds |->
     IF \E i \in DOMAIN clientBatch : clientBatch[i] = c
     THEN [IdleTask EXCEPT !.pc = "loop", !.pi = 1]
     ELSE t[c]]

\* faults counts the scrape and analysis invocations that have thrown; the
\* collaborators throw at most FaultBudget times in one run.
FaultBudget ==
  LET width == Min(Len(repoClients), Concurrency(input.priority))
  IN IF width <= 1 THEN MaxFaults
     ELSE IF width = 2 THEN MaxConcurrentFaults
     ELSE IF width = 3 THEN MaxBatchFaults
     ELSE 0

\* what execute has done for one WorkUnit: calls of isOpen, calls that
\* returned true, calls of tryAcquire, calls that returned false, scraper
\* invocations, recordSuccess and recordFailure calls, analyzer invocations
NoUnit ==
  [isOpen |-> 0, open |-> 0, acquire |-> 0, denied |-> 0, scrapes |-> 0,
   recS |-> 0, recF |-> 0, analyses |-> 0]

\* a breaker that five failed units of earlier execute calls have opened, the
\* last of them at lastFailureTime
OpenedBreaker(lastFailureTime) ==
  [state |-> "OPEN", failureCount |-> 5, lastFailureTime |-> lastFailureTime,
   halfOpenAttempts |-> 0]

PreOpenAges == {60000, 60001}
PreOpened ==
  {[k \in {} |-> NewBreaker]} \cup
  {[k \in {<<1, "chatgpt">>} |-> OpenedBreaker(StartClock - age)] :
     age \in PreOpenAges}

CallInit(flags) ==
  /\ wfNow = StartClock
  /\ circuitBreakers \in PreOpened
  /\ \E chatgptLimit \in {1, DefaultRateLimit["chatgpt"]} :
       rateLimits =
         [p \in Platforms |->
            [maxRequests |-> IF p = "chatgpt" THEN chatgptLimit
                             ELSE DefaultRateLimit[p],
             windowMs |-> DefaultWindowMs]]
  /\ rateLimiters = [p \in Platforms |-> <<>>]
  /\ input \in [clientIds : {<<>>},
                platforms : {<<"chatgpt">>, <<"chatgpt", "perplexity">>},
                priority : {"medium", "low"},
                retryOnFailure : flags,
                maxRetries : 0..(MaxRetriesLimit + 1),
                timeout : {MinTimeout - 1, 30000}]
  /\ input.timeout >= MinTimeout \/ input.maxRetries = 0
  /\ repoClients \in {[i \in 1..n |-> i] : n \in 0..MaxClients}
  /\ repoUp \in BOOLEAN
  /\ repoUp \/ repoClients = <<>>
  /\ Len(repoClients) * Len(input.platforms) <= MaxUnits
  /\ input.priority = "low" \/ input.maxRetries <= MaxConcurrentRetries
  /\ hasAnalyzer = TRUE
  /\ wfPc = "called"
  /\ clients = <<>>
  /\ platforms = <<>>
  /\ batch = 0
  /\ task = [c \in ClientIds |-> IdleTask]
  /\ errors = <<>>
  /\ results = <<>>
  /\ output = [success |-> FALSE, startTime |-> 0, stats |-> <<>>]
  /\ units = [k \in Keys |-> NoUnit]
  /\ faults = 0

\* retryOnFailure left out of the request: the schema's default, true
WFInit == CallInit({TRUE})

\* the calls of WFInit with maxRetries up to MaxLiveRetries, the breaker of
\* <<1, chatgpt>> absent or opened long enough ago to be probed, and
\* concurrent clients over one platform
MaxLiveRetries == 2
LiveInit ==
  /\ WFInit
  /\ input.maxRetries <= MaxLiveRetries
  /\ input.priority = "low" \/ Len(input.platforms) = 1
  /\ \A key \in DOMAIN circuitBreakers :
       wfNow - circuitBreakers[key].lastFailureTime > BreakerOptions.resetTimeout

\* the same calls with retryOnFailure given as true and as false
FlagInit ==
  /\ CallInit(BOOLEAN)
  /\ input.maxRetries <= MaxLiveRetries
  /\ input.priority = "low" \/ Len(input.platforms) = 1
  /\ \A key \in DOMAIN circuitBreakers :
       wfNow - circuitBreakers[key].lastFailureTime > BreakerOptions.resetTimeout

\* requests over one platform and up to MaxBatchClients clients, enough for
\* every priority to need a second batch; breakers and limiters are fresh
BatchInit ==
  /\ wfNow = StartClock
  /\ circuitBreakers = [k \in {} |-> NewBreaker]
  /\ rateLimits = [p \in Platforms |->
                     [maxRequests |-> DefaultRateLimit[p],
                      windowMs |-> DefaultWindowMs]]
  /\ rateLimiters = [p \in Platforms |-> <<>>]
  /\ input \in [clientIds : {<<>>}, platforms : {<<"chatgpt">>},
                priority : {"high", "medium", "low"},
                retryOnFailure : {TRUE}, maxRetries : 0..MaxBatchRetries,
                timeout : {30000}]
  /\ input.priority = "low" \/ input.maxRetries <= MaxConcurrentRetries
  /\ repoClients \in {[i \in 1..n |-> i] : n \in 0..MaxBatchClients}
  /\ input.priority = "low" => Len(repoClients) <= MaxClients
  /\ repoUp = TRUE
  /\ hasAnalyzer = TRUE
  /\ wfPc = "called"
  /\ clients = <<>>
  /\ platforms = <<>>
  /\ batch = 0
  /\ task = [c \in ClientIds |-> IdleTask]
  /\ errors = <<>>
  /\ results = <<>>
  /\ output = [success |-> FALSE, startTime |-> 0, stats |-> <<>>]
  /\ units = [k \in Keys |-> NoUnit]
  /\ faults = 0

\* no execute call in this process
WFIdle ==
  /\ wfNow = 0
  /\ circuitBreakers = [k \in {} |-> NewBreaker]
  /\ rateLimits = [p \in Platforms |->
                     [maxRequests |-> DefaultRateLimit[p],
                      windowMs |-> DefaultWindowMs]]
  /\ rateLimiters = [p \in Platforms |-> <<>>]
  /\ input = [clientIds |-> <<>>, platforms |-> <<>>, priority |-> "medium",
              retryOnFailure |-> TRUE, maxRetries |-> 3, timeout |-> 30000]
  /\ repoClients = <<>>
  /\ repoUp = TRUE
  /\ hasAnalyzer = TRUE
  /\ wfPc = "idle"
  /\ clients = <<>>
  /\ platforms = <<>>
  /\ batch = 0
  /\ task = [c \in ClientIds |-> IdleTask]
  /\ errors = <<>>
  /\ results = <<>>
  /\ output = [success |-> FALSE, startTime |-> 0, stats |-> <<>>]
  /\ units = [k \in Keys |-> NoUnit]
  /\ faults = 0

\* execute, lines 54-81: validate, resolve clients and platforms, start the
\* first batch; a ZodError, a rejected getClients or an empty client list is
\* rethrown by the outer catch (lines 251-259)
BeginFor(request) ==
  /\ wfPc = "called"
  /\ clients' = IF Validates(request) /\ repoUp THEN repoClients ELSE <<>>
  /\ output' = [output EXCEPT !.startTime = wfNow]
  /\ IF ~Validates(request) \/ ~repoUp \/ Len(repoClients) = 0
     THEN /\ wfPc' = "failed"
          /\ UNCHANGED <<platforms, batch, task>>
     ELSE /\ wfPc' = "running"
          /\ platforms' = IF request.platforms = <<>> THEN AllPlatforms
                          ELSE request.platforms
          /\ batch' = 1
          /\ task' = StartTasks(task,
                        ChunkArray(repoClients,
                                   Concurrency(request.priority))[1])
  /\ UNCHANGED <<wfNow, circuitBreakers, rateLimits, rateLimiters, input,
                 repoClients, repoUp, hasAnalyzer, errors, results, units,
                 faults, notWF>>

\* execute({input}): the request the steps read is the call's input
Begin == BeginFor(input)

\* a slip that forgets the `continue` of the open-breaker branch
AfterBreakerNoSkip(t, open) == [t EXCEPT !.pc = "acquire"]

\* lines 97-106: an open breaker skips the unit (continue)
AfterBreaker(t, open) ==
  IF open THEN [t EXCEPT !.pi = t.pi + 1] ELSE [t EXCEPT !.pc = "acquire"]

\* a slip that keeps the breakers per call: every reference starts from a
\* new breaker
BreakerCheckFresh(c) ==
  /\ wfPc = "running" /\ task[c].pc = "loop" /\ task[c].pi <= Len(platforms)
  /\ LET platform == platforms[task[c].pi]
         breakerKey == BreakerKey(c, platform)
         created == MapSet(circuitBreakers, breakerKey, NewBreaker)
         r == IsOpen(created[breakerKey], wfNow, BreakerOptions)
     IN /\ circuitBreakers' = MapSet(created, breakerKey, r.breaker)
        /\ errors' = IF r.ret
                     THEN Append(errors,
                                 ErrorEntry(c, platform, "Circuit breaker open",
                                            NoResetTime))
                     ELSE errors
        /\ task' = [task EXCEPT ![c] = AfterBreaker(@, r.ret)]
        /\ units' = [units EXCEPT
                       ![breakerKey].isOpen = @ + 1,
                       ![breakerKey].open = @ + (IF r.ret THEN 1 ELSE 0)]
  /\ UNCHANGED <<wfNow, rateLimits, rateLimiters, input, repoClients,
                 repoUp, hasAnalyzer, wfPc, clients, platforms, batch, results,
                 output, faults, notWF>>

\* lines 85-106: create the breaker on first reference, ask isOpen()
BreakerCheck(c) ==
  /\ wfPc = "running" /\ task[c].pc = "loop" /\ task[c].pi <= Len(platforms)
  /\ LET platform == platforms[task[c].pi]
         breakerKey == BreakerKey(c, platform)
         created == IF MapHas(circuitBreakers, breakerKey)
                    THEN circuitBreakers
                    ELSE MapSet(circuitBreakers, breakerKey, NewBreaker)
         r == IsOpen(created[breakerKey], wfNow, BreakerOptions)
     IN /\ circuitBreakers' = MapSet(created, breakerKey, r.breaker)
        /\ errors' = IF r.ret
                     THEN Append(errors,
                                 ErrorEntry(c, platform, "Circuit breaker open",
                                            NoResetTime))
                     ELSE errors
        /\ task' = [task EXCEPT ![c] = AfterBreaker(@, r.ret)]
        /\ units' = [units EXCEPT
                       ![breakerKey].isOpen = @ + 1,
                       ![breakerKey].open = @ + (IF r.ret THEN 1 ELSE 0)]
  /\ UNCHANGED <<wfNow, rateLimits, rateLimiters, input, repoClients,
                 repoUp, hasAnalyzer, wfPc, clients, platforms, batch, results,
                 output, faults, notWF>>

\* a slip that does not await the retry call: the platform loop goes on while
\* the retry sleeps
AfterRetryNoAwait(t, r, at) ==
  CASE r.pc = "calling" -> [t EXCEPT !.pc = "scraping", !.rt = r]
    [] r.pc = "sleeping" -> [t EXCEPT !.pc = "loop", !.pi = t.pi + 1, !.rt = r]
    [] r.pc = "returned" -> [t EXCEPT !.pc = "scraped", !.rt = r]
    [] r.pc = "thrown" ->
         [t EXCEPT !.pc = "catch", !.rt = r, !.caught = r.thrown]

\* where a task stands once its retry call has moved to r
AfterRetry(t, r, at) ==
  CASE r.pc = "calling" -> [t EXCEPT !.pc = "scraping", !.rt = r]
    [] r.pc = "sleeping" ->
         [t EXCEPT !.pc = "sleeping", !.rt = r,
                   !.wakeAt = at + r.sleeps[Len(r.sleeps)]]
    [] r.pc = "returned" -> [t EXCEPT !.pc = "scraped", !.rt = r]
    [] r.pc = "thrown" ->
         [t EXCEPT !.pc = "catch", !.rt = r, !.caught = r.thrown]

\* a slip that forgets the `continue` of the rate-limit branch
AfterAcquireNoSkip(t, admitted, maxRetries, at) ==
  AfterRetry(t, RetryLoop(RetryStart(ScrapeRetryOptions(maxRetries))), at)

\* lines 110-152: a denied unit is skipped (continue), an admitted one enters
\* retry, which invokes the scraper agent
AfterAcquire(t, admitted, maxRetries, at) ==
  IF admitted
  THEN AfterRetry(t, RetryLoop(RetryStart(ScrapeRetryOptions(maxRetries))), at)
  ELSE [t EXCEPT !.pi = t.pi + 1, !.pc = "loop"]

\* a slip that retries only when the request's retryOnFailure is set
RetryAttemptsIfEnabled(request) ==
  IF request.retryOnFailure THEN request.maxRetries ELSE 1

\* attempts: validatedInput.maxRetries
RetryAttempts(request) == request.maxRetries

\* a slip that lets tryAcquire yield between its check and its append: the
\* check runs on the list as it was before the latest append of another task
RateCheckInterleaved(c) ==
  /\ wfPc = "running" /\ task[c].pc = "acquire"
  /\ LET platform == platforms[task[c].pi]
         key == BreakerKey(c, platform)
         seen == rateLimiters[platform]
         stale == IF seen = <<>> THEN seen ELSE SubSeq(seen, 1, Len(seen) - 1)
         r == TryAcquire(stale, wfNow, rateLimits[platform])
         requests == IF r.ret THEN Append(seen, wfNow) ELSE seen
         next == AfterAcquire(task[c], r.ret, RetryAttempts(input), wfNow)
     IN /\ rateLimiters' = [rateLimiters EXCEPT ![platform] = requests]
        /\ errors' = IF r.ret THEN errors
                     ELSE Append(errors,
                                 ErrorEntry(c, platform, "Rate limit exceeded",
                                            GetResetTime(requests, wfNow,
                                                         rateLimits[platform])))
        /\ task' = [task EXCEPT ![c] = next]
        /\ units' = [units EXCEPT
                       ![key].acquire = @ + 1,
                       ![key].denied = @ + (IF r.ret THEN 0 ELSE 1),
                       ![key].scrapes = IF r.ret THEN next.rt.calls ELSE @]
  /\ UNCHANGED <<wfNow, circuitBreakers, rateLimits, input, repoClients,
                 repoUp, hasAnalyzer, wfPc, clients, platforms, batch, results,
                 output, faults, notWF>>

\* lines 108-152: tryAcquire() and the code that runs when it has answered
RateCheckFor(c, request) ==
  /\ wfPc = "running" /\ task[c].pc = "acquire"
  /\ LET platform == platforms[task[c].pi]
         key == BreakerKey(c, platform)
         r == TryAcquire(rateLimiters[platform], wfNow, rateLimits[platform])
         next == AfterAcquire(task[c], r.ret, RetryAttempts(request), wfNow)
     IN /\ rateLimiters' = [rateLimiters EXCEPT ![platform] = r.requests]
        /\ errors' = IF r.ret THEN errors
                     ELSE Append(errors,
                                 ErrorEntry(c, platform, "Rate limit exceeded",
                                            GetResetTime(r.requests, wfNow,
                                                         rateLimits[platform])))
        /\ task' = [task EXCEPT ![c] = next]
        /\ units' = [units EXCEPT
                       ![key].acquire = @ + 1,
                       ![key].denied = @ + (IF r.ret THEN 0 ELSE 1),
                       ![key].scrapes = IF r.ret THEN next.rt.calls ELSE @]
  /\ UNCHANGED <<wfNow, circuitBreakers, rateLimits, input, repoClients,
                 repoUp, hasAnalyzer, wfPc, clients, platforms, batch, results,
                 output, faults, notWF>>

RateCheck(c) == RateCheckFor(c, input)

\* scraperAgent.execute settles (the clock is read only by the breaker, the
\* limiter and the timers, so the time a scrape takes is left to the timers);
\* retry handles the outcome
ScrapeSettle(c) ==
  /\ wfPc = "running" /\ task[c].pc = "scraping"
  /\ \E o \in Outcomes(task[c].rt.calls) :
       LET r == RetrySettle(task[c].rt, o)
       IN /\ o.ok \/ faults < FaultBudget
          /\ faults' = IF o.ok THEN faults ELSE faults + 1
          /\ task' = [task EXCEPT ![c] = AfterRetry(@, r, wfNow)]
  /\ UNCHANGED <<wfNow, circuitBreakers, rateLimits, rateLimiters, input,
                 repoClients, repoUp, hasAnalyzer, wfPc, clients, platforms,
                 batch,
                 errors, results, output, units, notWF>>

\* the retry timer fires, not before its delay has passed
Wake(c) ==
  /\ wfPc = "running" /\ task[c].pc = "sleeping"
  /\ LET r == RetryWake(task[c].rt)
         key == BreakerKey(c, platforms[task[c].pi])
     IN /\ wfNow' = Max(wfNow, task[c].wakeAt)
        /\ task' = [task EXCEPT ![c] = AfterRetry(@, r, wfNow')]
        /\ units' = [units EXCEPT ![key].scrapes = r.calls]
  /\ UNCHANGED <<circuitBreakers, rateLimits, rateLimiters, input,
                 repoClients, repoUp, hasAnalyzer, wfPc, clients, platforms,
                 batch,
                 errors, results, output, faults, notWF>>

\* entries of clientResults
ResultEntry(platform, success, data, message) ==
  [platform |-> platform, success |-> success, data |-> data,
   error |-> message]

\* lines 154-178: retry returned: recordSuccess(), then the analyzer agent
OnSuccess(c) ==
  /\ wfPc = "running" /\ task[c].pc = "scraped"
  /\ LET platform == platforms[task[c].pi]
         key == BreakerKey(c, platform)
     IN /\ circuitBreakers' =
             MapSet(circuitBreakers, key,
                    RecordSuccess(circuitBreakers[key], BreakerOptions))
        /\ units' = [units EXCEPT
                       ![key].recS = @ + 1,
                       ![key].analyses = @ + (IF hasAnalyzer THEN 1 ELSE 0)]
        /\ task' = [task EXCEPT ![c] =
                      IF hasAnalyzer
                      THEN [@ EXCEPT !.pc = "analyzing"]
                      ELSE [@ EXCEPT
                              !.clientResults =
                                 Append(@, ResultEntry(platform, TRUE,
                                                       "result", "")),
                              !.pi = @ + 1, !.pc = "loop"]]
  /\ UNCHANGED <<wfNow, rateLimits, rateLimiters, input, repoClients,
                 repoUp, hasAnalyzer, wfPc, clients, platforms, batch, errors,
                 results, output, faults, notWF>>

\* the error an analyzerAgent.execute rethrows
AnalysisError == [tag |-> "ANALYSIS", n |-> 0]

\* lines 160-171: analyzerAgent.execute returns or throws
AnalyzeSettle(c) ==
  /\ wfPc = "running" /\ task[c].pc = "analyzing"
  /\ \E ok \in BOOLEAN :
       /\ ok \/ faults < FaultBudget
       /\ faults' = IF ok THEN faults ELSE faults + 1
       /\ task' = [task EXCEPT ![c] =
                     IF ok
                     THEN [@ EXCEPT
                             !.clientResults =
                                Append(@, ResultEntry(platforms[task[c].pi],
                                                      TRUE, "analysis", "")),
                             !.pi = @ + 1, !.pc = "loop"]
                     ELSE [@ EXCEPT !.pc = "catch", !.caught = AnalysisError]]
  /\ UNCHANGED <<wfNow, circuitBreakers, rateLimits, rateLimiters, input,
                 repoClients, repoUp, hasAnalyzer, wfPc, clients, platforms,
                 batch,
                 errors, results, output, units, notWF>>

\* a slip that hands the unit's rate-limiter slot back when the unit fails
CatchReturnsSlot(c) ==
  /\ wfPc = "running" /\ task[c].pc = "catch"
  /\ LET platform == platforms[task[c].pi]
         key == BreakerKey(c, platform)
         error == task[c].caught
         held == rateLimiters[platform]
     IN /\ circuitBreakers' =
             MapSet(circuitBreakers, key,
                    RecordFailure(circuitBreakers[key], wfNow, BreakerOptions))
        /\ rateLimiters' =
             [rateLimiters EXCEPT
                ![platform] = IF held = <<>> THEN held
                              ELSE SubSeq(held, 1, Len(held) - 1)]
        /\ units' = [units EXCEPT ![key].recF = @ + 1]
        /\ IF error = Undefined
           THEN /\ task' = [task EXCEPT ![c].pc = "rejected",
                                        ![c].reason = TypeErrorMessage]
                /\ errors' = errors
           ELSE /\ errors' = Append(errors,
                                    ErrorEntry(c, platform, error.tag,
                                               NoResetTime))
                /\ task' = [task EXCEPT
                              ![c].clientResults =
                                 Append(@, ResultEntry(platform, FALSE, "",
                                                       error.tag)),
                              ![c].pi = @ + 1, ![c].pc = "loop"]
  /\ UNCHANGED <<wfNow, rateLimits, input, repoClients,
                 repoUp, hasAnalyzer, wfPc, clients, platforms, batch, results,
                 output, faults, notWF>>

\* lines 180-201: the catch block.  With error undefined (retry left its loop
\* without an invocation) reading error.message throws a TypeError out of the
\* catch block, which rejects the client's task.
Catch(c) ==
  /\ wfPc = "running" /\ task[c].pc = "catch"
  /\ LET platform == platforms[task[c].pi]
         key == BreakerKey(c, platform)
         error == task[c].caught
     IN /\ circuitBreakers' =
             MapSet(circuitBreakers, key,
                    RecordFailure(circuitBreakers[key], wfNow, BreakerOptions))
        /\ units' = [units EXCEPT ![key].recF = @ + 1]
        /\ IF error = Undefined
           THEN /\ task' = [task EXCEPT ![c].pc = "rejected",
                                        ![c].reason = TypeErrorMessage]
                /\ errors' = errors
           ELSE /\ errors' = Append(errors,
                                    ErrorEntry(c, platform, error.tag,
                                               NoResetTime))
                /\ task' = [task EXCEPT
                              ![c].clientResults =
                                 Append(@, ResultEntry(platform, FALSE, "",
                                                       error.tag)),
                              ![c].pi = @ + 1, ![c].pc = "loop"]
  /\ UNCHANGED <<wfNow, rateLimits, rateLimiters, input, repoClients,
                 repoUp, hasAnalyzer, wfPc, clients, platforms, batch, results,
                 output, faults, notWF>>

\* lines 204-209: the platform loop is over, the task fulfills
TaskReturn(c) ==
  /\ wfPc = "running" /\ task[c].pc = "loop" /\ task[c].pi > Len(platforms)
  /\ task' = [task EXCEPT ![c].pc = "fulfilled"]
  /\ UNCHANGED <<wfNow, circuitBreakers, rateLimits, rateLimiters, input,
                 repoClients, repoUp, hasAnalyzer, wfPc, clients, platforms,
                 batch,
                 errors, results, output, units, faults, notWF>>

\* batchResults.forEach: the values of the fulfilled tasks, the reasons of
\* the rejected ones, in batch order
RECURSIVE FulfilledValues(_, _)
FulfilledValues(clientBatch, t) ==
  IF clientBatch = <<>> THEN <<>>
  ELSE LET c == clientBatch[1]
       IN (IF t[c].pc = "fulfilled"
           THEN <<[clientId |-> c, results |-> t[c].clientResults]>>
           ELSE <<>>) \o FulfilledValues(Tail(clientBatch), t)

RECURSIVE RejectedReasons(_, _)
RejectedReasons(clientBatch, t) ==
  IF clientBatch = <<>> THEN <<>>
  ELSE LET c == clientBatch[1]
       IN (IF t[c].pc = "rejected"
           THEN <<ErrorEntry(NoClient, NoPlatform, t[c].reason, NoResetTime)>>
           ELSE <<>>) \o RejectedReasons(Tail(clientBatch), t)

\* lines 213-249: Promise.allSettled has every task of the batch settled;
\* collect, then start the next batch or return the outcome
SettleBatchFor(request) ==
  /\ wfPc = "running"
  /\ LET clientBatch == ClientBatchesFor(request)[batch]
         collected == results \o FulfilledValues(clientBatch, task)
         failed == errors \o RejectedReasons(clientBatch, task)
     IN /\ \A i \in DOMAIN clientBatch :
             task[clientBatch[i]].pc \in {"fulfilled", "rejected"}
        /\ results' = collected
        /\ errors' = failed
        /\ IF batch < Len(ClientBatchesFor(request))
           THEN /\ batch' = batch + 1
                /\ task' = StartTasks(task,
                                      ClientBatchesFor(request)[batch + 1])
                /\ UNCHANGED <<wfPc, output>>
           ELSE /\ wfPc' = "done"
                /\ output' =
                     [output EXCEPT
                        !.success = TRUE,
                        !.stats =
                           [executionTime |-> wfNow - output.startTime,
                            totalClients |-> Len(clients),
                            totalPlatforms |-> Len(platforms),
                            successfulResults |-> Len(collected),
                            failedResults |-> Len(failed)]]
                /\ UNCHANGED <<batch, task>>
  /\ UNCHANGED <<wfNow, circuitBreakers, rateLimits, rateLimiters, input,
                 repoClients, repoUp, hasAnalyzer, clients, platforms, units,
                 faults, notWF>>

SettleBatch == SettleBatchFor(input)

\* the steps execute takes when the request it read is `request`
WFNextFor(request) ==
  \/ BeginFor(request)
  \/ \E c \in ClientIds : BreakerCheck(c)
  \/ \E c \in ClientIds : RateCheckFor(c, request)
  \/ \E c \in ClientIds : ScrapeSettle(c)
  \/ \E c \in ClientIds : Wake(c)
  \/ \E c \in ClientIds : OnSuccess(c)
  \/ \E c \in ClientIds : AnalyzeSettle(c)
  \/ \E c \in ClientIds : Catch(c)
  \/ \E c \in ClientIds : TaskReturn(c)
  \/ SettleBatchFor(request)

WFNext ==
  \/ Begin
  \/ \E c \in ClientIds : BreakerCheck(c)
  \/ \E c \in ClientIds : RateCheck(c)
  \/ \E c \in ClientIds : ScrapeSettle(c)
  \/ \E c \in ClientIds : Wake(c)
  \/ \E c \in ClientIds : OnSuccess(c)
  \/ \E c \in ClientIds : AnalyzeSettle(c)
  \/ \E c \in ClientIds : Catch(c)
  \/ \E c \in ClientIds : TaskReturn(c)
  \/ SettleBatch

----------------------------------------------------------------------------
(* Specifications *)

InitRL ==
  RLInit /\ CBIdle /\ RTIdle /\ CLIdle /\ AZIdle /\ MSIdle /\ WFIdle
SpecRL == InitRL /\ [][RLNext]_vars

InitCB ==
  CBInit /\ RLIdle /\ RTIdle /\ CLIdle /\ AZIdle /\ MSIdle /\ WFIdle
SpecCB == InitCB /\ [][CBNext]_vars

InitRetry ==
  RTInit /\ RLIdle /\ CBIdle /\ CLIdle /\ AZIdle /\ MSIdle /\ WFIdle

InitClassify ==
  CLInit /\ RLIdle /\ CBIdle /\ RTIdle /\ AZIdle /\ MSIdle /\ WFIdle
SpecClassify == InitClassify /\ [][CLNext]_vars
SpecRetry == InitRetry /\ [][RTNext]_vars

Init == WFInit /\ RLIdle /\ CBIdle /\ RTIdle /\ CLIdle /\ AZIdle /\ MSIdle
Next == WFNext
Spec == Init /\ [][Next]_vars

InitBatches ==
  BatchInit /\ RLIdle /\ CBIdle /\ RTIdle /\ CLIdle /\ AZIdle /\ MSIdle

InitAnalyzer ==
  AZInit /\ RLIdle /\ CBIdle /\ RTIdle /\ CLIdle /\ MSIdle /\ WFIdle
SpecAnalyzer == InitAnalyzer /\ [][AZNext]_vars

InitStrength ==
  MSInit /\ RLIdle /\ CBIdle /\ RTIdle /\ CLIdle /\ AZIdle /\ WFIdle
SpecStrength == InitStrength /\ [][MSNext]_vars
SpecBatches == InitBatches /\ [][Next]_vars

\* the call under the scheduling the code runs on: every started scrape and
\* analysis invocation settles, every retry timer fires, and the event loop
\* runs a continuation that is ready, so a call that can take a step takes
\* one
InitFlags == FlagInit /\ RLIdle /\ CBIdle /\ RTIdle /\ CLIdle /\ AZIdle /\ MSIdle
SpecFlags == InitFlags /\ [][Next]_vars

InitLive == LiveInit /\ RLIdle /\ CBIdle /\ RTIdle /\ CLIdle /\ AZIdle /\ MSIdle
SpecLive == InitLive /\ [][Next]_vars /\ WF_vars(Next)

----------------------------------------------------------------------------
(* Claims about RateLimiter *)

\* admissions among the first j-1 calls still inside the trailing window
\* (at - windowMs, at] of call j
LiveAdmissions(j) ==
  {i \in 1..(j - 1) :
     rlCalls[i].ret /\ rlCalls[i].at > rlCalls[j].at - rlOptions.windowMs}

AdmissionsInWindow(t) ==
  {i \in DOMAIN rlCalls :
     rlCalls[i].ret /\ rlCalls[i].at > t - rlOptions.windowMs
                    /\ rlCalls[i].at <= t}

\* C1: every tryAcquire returns true and appends the current time iff fewer
\* than maxRequests admitted timestamps are still inside the trailing window,
\* otherwise it returns false and appends nothing; the first maxRequests calls
\* inside a window are admitted and the next one is denied; no trailing
\* window of windowMs ever holds more than maxRequests admissions.
C1_TryAcquire ==
  /\ \A j \in DOMAIN rlCalls :
       rlCalls[j].ret <=> Cardinality(LiveAdmissions(j)) < rlOptions.maxRequests
  /\ rlCalls # <<>> =>
       LET j == Len(rlCalls)
           live == LiveAdmissions(j) \cup (IF rlCalls[j].ret THEN {j} ELSE {})
       IN /\ Len(rlRequests) = Cardinality(live)
          /\ \A i \in live : \E k \in DOMAIN rlRequests : rlRequests[k] = rlCalls[i].at
          /\ rlCalls[j].ret => rlRequests[Len(rlRequests)] = rlCalls[j].at
  /\ \A j \in DOMAIN rlCalls :
       rlCalls[1].at > rlCalls[j].at - rlOptions.windowMs =>
         (rlCalls[j].ret <=> j <= rlOptions.maxRequests)
  /\ \A t \in 1..rlNow :
       Cardinality(AdmissionsInWindow(t)) <= rlOptions.maxRequests

\* a full window denied a call, and a later call was admitted again
C1_Witness ==
  \E j, k \in DOMAIN rlCalls :
    /\ j = rlOptions.maxRequests + 1
    /\ ~rlCalls[j].ret
    /\ j < k /\ rlCalls[k].ret

----------------------------------------------------------------------------
(* Claims about CircuitBreaker *)

\* C2: a breaker starts CLOSED; a recordFailure() in CLOSED opens it iff it
\* brings failureCount to failureThreshold or more; failureThreshold
\* consecutive recordFailure() calls from the initial state leave it OPEN, and
\* an isOpen() issued right after them, before resetTimeout has elapsed,
\* returns true.
C2_ClosedToOpen ==
  /\ cbLast.op = "none" => cb = NewBreaker /\ cb.state = "CLOSED"
  /\ cbLast.op = "recordFailure" /\ cbLast.pre.state = "CLOSED" =>
       /\ cb.failureCount = cbLast.pre.failureCount + 1
       /\ cb.state = IF cb.failureCount >= cbOptions.failureThreshold
                     THEN "OPEN" ELSE "CLOSED"
  /\ cbFailRun >= 0 =>
       cb.state = IF cbFailRun >= cbOptions.failureThreshold
                  THEN "OPEN" ELSE "CLOSED"
  /\ /\ cbLast.op = "isOpen"
     /\ cbLast.run = cbOptions.failureThreshold
     /\ cbLast.at - cbLast.pre.lastFailureTime <= cbOptions.resetTimeout
     => cbLast.ret /\ cb.state = "OPEN"

\* five failures from the initial state with failureThreshold = 5, then an
\* isOpen() that returned true
C2_Witness ==
  /\ cbOptions.failureThreshold = 5
  /\ cbLast.op = "isOpen" /\ cbLast.run = 5 /\ cbLast.ret
  /\ cb.state = "OPEN"

C3_IsOpenResult ==
  cbLast.op = "isOpen" /\ cbLast.pre.state = "OPEN" =>
    IF cbLast.at - cbLast.pre.lastFailureTime <= cbOptions.resetTimeout
    THEN cbLast.ret /\ cb = cbLast.pre
    ELSE /\ ~cbLast.ret
         /\ cb = [cbLast.pre EXCEPT !.state = "HALF_OPEN"]
         /\ cb.halfOpenAttempts = 0

C3_LeavesOpen ==
  cb.state = "OPEN" /\ cb'.state # "OPEN" =>
    /\ cbLast'.op = "isOpen" /\ ~cbLast'.ret
    /\ cb'.state = "HALF_OPEN"
    /\ cbNow - cb.lastFailureTime > cbOptions.resetTimeout

\* C3: on an OPEN breaker isOpen() returns true and changes nothing while
\* now - lastFailureTime <= resetTimeout; once now - lastFailureTime >
\* resetTimeout the call switches to HALF_OPEN with the half-open counter at 0
\* and returns false; no other call moves a breaker out of OPEN.
C3_OpenToHalfOpen == [](C3_IsOpenResult) /\ [][C3_LeavesOpen]_vars

\* an isOpen() on an OPEN breaker after the timeout: HALF_OPEN, false
C3_Witness ==
  /\ cbLast.op = "isOpen" /\ cbLast.pre.state = "OPEN" /\ ~cbLast.ret
  /\ cb.state = "HALF_OPEN"

\* C4: in HALF_OPEN with halfOpenRequests = k >= 1, the k-th recordSuccess()
\* since HALF_OPEN was entered closes the breaker with failureCount = 0 and
\* the half-open counter = 0; an earlier one leaves it HALF_OPEN with
\* failureCount unchanged.
C4_HalfOpenToClosed ==
  /\ cbOptions.halfOpenRequests >= 1
  /\ cbLast.op = "recordSuccess" /\ cbLast.pre.state = "HALF_OPEN"
  => IF cbHalfSucc = cbOptions.halfOpenRequests
     THEN cb.state = "CLOSED" /\ cb.failureCount = 0 /\ cb.halfOpenAttempts = 0
     ELSE /\ cbHalfSucc < cbOptions.halfOpenRequests
          /\ cb.state = "HALF_OPEN"
          /\ cb.failureCount = cbLast.pre.failureCount

\* halfOpenRequests = 2: the second success in HALF_OPEN closed the breaker
C4_Witness ==
  /\ cbOptions.halfOpenRequests = 2
  /\ cbLast.op = "recordSuccess" /\ cbLast.pre.state = "HALF_OPEN"
  /\ cbHalfSucc = 2 /\ cbLast.pre.failureCount > 0
  /\ cb.state = "CLOSED"

\* C5: a recordFailure() in HALF_OPEN opens the breaker whatever failureCount
\* and the successes already counted, and resets the half-open counter, so
\* that in every HALF_OPEN period the counter equals the successes recorded
\* since that period began.
C5_HalfOpenToOpen ==
  /\ cbLast.op = "recordFailure" /\ cbLast.pre.state = "HALF_OPEN" =>
       /\ cb.state = "OPEN"
       /\ cb.halfOpenAttempts = 0
       /\ cb.lastFailureTime = cbLast.at
  /\ cb.state = "OPEN" => cb.halfOpenAttempts = 0
  /\ cb.state = "HALF_OPEN" => cb.halfOpenAttempts = cbHalfSucc

\* a failure after one counted success in HALF_OPEN reopened the breaker
C5_Witness ==
  /\ cbLast.op = "recordFailure" /\ cbLast.pre.state = "HALF_OPEN"
  /\ cbLast.pre.halfOpenAttempts = 1
  /\ cb.state = "OPEN"

----------------------------------------------------------------------------
(* Claims about retry *)

AllFailedRetryable(outcomes) ==
  \A i \in DOMAIN outcomes :
    /\ ~outcomes[i].ok
    /\ rt.options.retryCondition => IsRetryableError(outcomes[i].error)

\* C6: with attempts = n >= 1 the operation is invoked at most n times; retry
\* returns the value of the first invocation that succeeds and invokes nothing
\* after it; when all n invocations fail with errors that retryCondition
\* accepts, retry throws the error of the n-th invocation.
C6_RetryBounded ==
  rt.options.attempts >= 1 =>
    /\ rt.calls <= rt.options.attempts
    /\ Len(rt.outcomes) <= rt.calls
    /\ \A i \in DOMAIN rt.outcomes :
         rt.outcomes[i].ok =>
           /\ i = Len(rt.outcomes) /\ rt.calls = i
           /\ rt.pc = "returned" /\ rt.result = rt.outcomes[i].value
    /\ rt.pc = "returned" => rt.outcomes[Len(rt.outcomes)].ok
    /\ Len(rt.outcomes) = rt.options.attempts
         /\ AllFailedRetryable(rt.outcomes) =>
           /\ rt.pc = "thrown"
           /\ rt.thrown = rt.outcomes[rt.options.attempts].error
           /\ rt.thrown.n = rt.options.attempts

\* attempts = 3: two failures then a success returned at the third invocation
C6_Witness ==
  /\ rt.options.attempts = 3 /\ rt.calls = 3
  /\ rt.pc = "returned" /\ rt.result = 3

\* attempts = 3 exhausted: the third error was thrown
C6_WitnessExhausted ==
  /\ rt.options.attempts = 3 /\ rt.pc = "thrown" /\ rt.thrown.n = 3

----------------------------------------------------------------------------
(* Claims about execute *)

\* position of a platform in the request's platform list (0 when not in it)
PlatformIndex(platform) ==
  IF \E i \in DOMAIN platforms : platforms[i] = platform
  THEN CHOOSE i \in DOMAIN platforms : platforms[i] = platform
  ELSE 0

\* the entries of the errors array that name a WorkUnit
ErrorsOf(key) ==
  {i \in DOMAIN errors :
     errors[i].clientId = key[1] /\ errors[i].platform = key[2]}

\* the client's task has left the unit behind
MovedPast(key) ==
  \/ task[key[1]].pi > PlatformIndex(key[2])
  \/ task[key[1]].pc \in {"fulfilled", "rejected"}

C7_RetryStops ==
  \A c \in ClientIds :
    LET r == task[c].rt
    IN \A i \in DOMAIN r.outcomes :
         ~r.outcomes[i].ok /\ ~IsRetryableError(r.outcomes[i].error) =>
           /\ i = Len(r.outcomes) /\ r.calls = i
           /\ r.pc = "thrown" /\ r.thrown = r.outcomes[i].error
           /\ Len(r.onRetry) = i - 1 /\ Len(r.sleeps) = i - 1
           /\ \A j \in 1..(i - 1) : IsRetryableError(r.outcomes[j].error)
           /\ task[c].pc # "sleeping" /\ task[c].pc # "scraping"
           /\ task[c].pc = "catch" =>
                /\ task[c].caught = r.outcomes[i].error
                /\ units[BreakerKey(c, platforms[task[c].pi])].scrapes = i

C7_Surfaces ==
  \A c \in ClientIds :
    /\ task[c].pc = "catch" /\ task'[c].pc # "catch"
    /\ task[c].caught # Undefined
    => /\ errors' = Append(errors,
                           ErrorEntry(c, platforms[task[c].pi],
                                      task[c].caught.tag, NoResetTime))
       /\ task'[c].pi = task[c].pi + 1
       /\ task'[c].clientResults =
            Append(task[c].clientResults,
                   ResultEntry(platforms[task[c].pi], FALSE, "",
                               task[c].caught.tag))
       /\ units'[BreakerKey(c, platforms[task[c].pi])].scrapes
            = units[BreakerKey(c, platforms[task[c].pi])].scrapes

\* C7: when an invocation inside retry fails with an error that retryCondition
\* rejects, retry throws that same error at once: no further invocation, no
\* onRetry call and no sleep for it; the orchestrator records that error for
\* the unit after exactly the invocations made so far (one, when the first
\* scrape fails that way).
C7_NonRetryable == [](C7_RetryStops) /\ [][C7_Surfaces]_vars

\* a first scrape that failed with a non-retryable error while attempts
\* remained, recorded for the unit after one invocation
C7_Witness ==
  \E c \in ClientIds :
    /\ input.maxRetries >= 2
    /\ task[c].rt.pc = "thrown" /\ task[c].rt.thrown.tag = "OTHER"
    /\ task[c].rt.calls = 1
    /\ task[c].pi = 2
    /\ units[BreakerKey(c, platforms[1])].scrapes = 1
    /\ \E i \in ErrorsOf(BreakerKey(c, platforms[1])) : errors[i].error = "OTHER"

\* C8: a unit whose isOpen() returned true has exactly one 'Circuit breaker
\* open' error and is skipped: no tryAcquire, no scrape, no recordSuccess, no
\* recordFailure, no analysis.
C8_CircuitOpenSkips ==
  \A key \in Keys :
    units[key].open >= 1 =>
      /\ units[key].open = 1 /\ units[key].isOpen = 1
      /\ units[key].acquire = 0 /\ units[key].denied = 0
      /\ units[key].scrapes = 0
      /\ units[key].recS = 0 /\ units[key].recF = 0
      /\ units[key].analyses = 0
      /\ Cardinality(ErrorsOf(key)) = 1
      /\ \A i \in ErrorsOf(key) : errors[i].error = "Circuit breaker open"
      /\ MovedPast(key)
      /\ \A i \in DOMAIN task[key[1]].clientResults :
           task[key[1]].clientResults[i].platform # key[2]

\* execute returned after skipping a unit whose breaker was open while the
\* limiter of that platform saw no call at all
C8_Witness ==
  /\ wfPc = "done"
  /\ \E key \in Keys :
       /\ units[key].open = 1
       /\ Len(clients) = 1
       /\ rateLimiters[key[2]] = <<>>

\* C9: a unit that the breaker admitted and tryAcquire() denied has exactly
\* one 'Rate limit exceeded' error carrying the limiter's reset time and is
\* skipped: no scrape, no recordSuccess, no recordFailure; the client goes on
\* with its next platform.
C9_RateLimitedSkips ==
  \A key \in Keys :
    units[key].denied >= 1 =>
      /\ units[key].denied = 1 /\ units[key].acquire = 1
      /\ units[key].isOpen = 1 /\ units[key].open = 0
      /\ units[key].scrapes = 0
      /\ units[key].recS = 0 /\ units[key].recF = 0
      /\ units[key].analyses = 0
      /\ Cardinality(ErrorsOf(key)) = 1
      /\ \A i \in ErrorsOf(key) :
           /\ errors[i].error = "Rate limit exceeded"
           /\ errors[i].resetTime \in 1..rateLimits[key[2]].windowMs
      /\ MovedPast(key)
      /\ LET i == PlatformIndex(key[2])
         IN i < Len(platforms)
            /\ task[key[1]].pc \in {"fulfilled", "rejected"}
            => units[BreakerKey(key[1], platforms[i + 1])].isOpen = 1

\* a client denied on its first platform went on to its second platform
C9_Witness ==
  \E c \in ClientIds :
    /\ Len(platforms) = 2
    /\ units[BreakerKey(c, platforms[1])].denied = 1
    /\ units[BreakerKey(c, platforms[2])].isOpen = 1
    /\ wfPc = "done"

\* C10: an error in one WorkUnit never keeps another WorkUnit of the request
\* from being processed: when execute returns, every (client, platform) pair
\* of the request has gone through its breaker check, for every maxRetries
\* in 0..5.
C10_ErrorIsolation ==
  wfPc = "done" =>
    \A i \in DOMAIN clients, j \in DOMAIN platforms :
      units[BreakerKey(clients[i], platforms[j])].isOpen >= 1

\* the WorkUnits of the request, the entries of the errors array with a
\* given message, and the scraper invocations of the whole call
Targeted == {BreakerKey(clients[i], platforms[j]) :
               i \in DOMAIN clients, j \in DOMAIN platforms}

ErrorsSaying(message) == {i \in DOMAIN errors : errors[i].error = message}

RECURSIVE SumScrapes(_)
SumScrapes(keys) ==
  IF keys = {} THEN 0
  ELSE LET k == CHOOSE x \in keys : TRUE
       IN units[k].scrapes + SumScrapes(keys \ {k})

\* C11: with maxRetries = 0, when execute returns every WorkUnit whose
\* breaker was not open and which the limiter admitted has had exactly one
\* scrape attempt, and every WorkUnit whose breaker was open has one
\* circuit-open error and no scrape; over 2 clients x 2 platforms with one
\* breaker open that is one circuit-open error and three scrape attempts.
C11_OneAttemptEach ==
  wfPc = "done" /\ input.maxRetries = 0 =>
    /\ \A key \in Targeted :
         /\ units[key].open = 0 /\ units[key].acquire = 1
            /\ units[key].denied = 0
              => units[key].scrapes = 1
         /\ units[key].open = 1
              => /\ units[key].scrapes = 0
                 /\ Cardinality(ErrorsOf(key)) = 1
                 /\ \A i \in ErrorsOf(key) :
                      errors[i].error = "Circuit breaker open"
    /\ /\ Len(clients) = 2 /\ Len(platforms) = 2
       /\ Cardinality({key \in Targeted : units[key].open = 1}) = 1
       /\ \A key \in Targeted : units[key].denied = 0
       => /\ Cardinality(ErrorsSaying("Circuit breaker open")) = 1
          /\ SumScrapes(Targeted) = 3

\* execute dispatched the unit: its breaker was not open and the limiter
\* admitted it
Dispatched(key) ==
  /\ units[key].isOpen >= 1 /\ units[key].open = 0
  /\ units[key].acquire >= 1 /\ units[key].denied = 0

\* C12: for every dispatched unit exactly one of recordSuccess() and
\* recordFailure() is called on its breaker, once: never both, never none
\* once the client has left the unit, and none for a unit not dispatched.
C12_ReportedOnce ==
  \A key \in Keys :
    /\ units[key].recS + units[key].recF <= 1
    /\ ~Dispatched(key) => units[key].recS + units[key].recF = 0
    /\ Dispatched(key) /\ MovedPast(key)
         => units[key].recS + units[key].recF = 1

\* the analyzer is invoked only for a unit whose retry-wrapped scrape returned
C13_AfterScrape ==
  /\ \A key \in Keys :
       units[key].analyses >= 1 => units[key].recS >= 1 /\ Dispatched(key)
  /\ \A c \in ClientIds :
       task[c].pc = "analyzing" => task[c].rt.pc = "returned"

\* handling a thrown analysis surfaces the error for the unit and leaves the
\* unit's breaker as recordSuccess() left it, and every limiter as it was
C13_Handled ==
  \A c \in ClientIds :
    /\ task[c].pc = "catch" /\ task'[c].pc # "catch"
    /\ task[c].caught = AnalysisError
    => LET platform == platforms[task[c].pi]
           key == BreakerKey(c, platform)
       IN /\ errors' = Append(errors,
                              ErrorEntry(c, platform, AnalysisError.tag,
                                         NoResetTime))
          /\ circuitBreakers'[key].failureCount
               = circuitBreakers[key].failureCount
          /\ circuitBreakers'[key].lastFailureTime
               = circuitBreakers[key].lastFailureTime
          /\ circuitBreakers'[key].state = circuitBreakers[key].state
          /\ rateLimiters' = rateLimiters

\* C13: analysis runs only after a successful scrape, and when the analyzer
\* then throws, the error is surfaced for the unit while the breaker is as if
\* the analysis had succeeded (failureCount not incremented, lastFailureTime
\* not set, no move to OPEN) and the rate limiter state is unchanged.
C13_AnalysisError == [](C13_AfterScrape) /\ [][C13_Handled]_vars

----------------------------------------------------------------------------
(* Claims about batches *)

\* the clients whose platform loop has started and whose task has not settled
InFlight ==
  {c \in ClientIds : task[c].pc \notin {"idle", "fulfilled", "rejected"}}

BatchOf(c) ==
  LET size == CASE input.priority = "high" -> 5
                [] input.priority = "medium" -> 3
                [] input.priority = "low" -> 1
      i == CHOOSE k \in DOMAIN clients : clients[k] = c
  IN ((i - 1) \div size) + 1

\* what execute has done for a client: nothing at all
Untouched(c) ==
  /\ task[c].pc = "idle"
  /\ \A p \in Platforms : units[BreakerKey(c, p)] = NoUnit

\* the client's task has settled and its value or reason is in the outcome
Collected(c) ==
  \/ /\ task[c].pc = "fulfilled"
     /\ Cardinality({i \in DOMAIN results : results[i].clientId = c}) = 1
  \/ /\ task[c].pc = "rejected"
     /\ \E i \in DOMAIN errors :
          errors[i].clientId = NoClient /\ errors[i].error = task[c].reason

\* C15: no client of a later batch performs any step (breaker check,
\* rate-limit check, scrape) before every client of the batches before it has
\* settled and its result or error has been added to the outcome.
C15_BatchBarrier ==
  wfPc \in {"running", "done"} =>
    \A c \in ClientIds :
      /\ BatchOf(c) > batch => Untouched(c)
      /\ ~Untouched(c) =>
           \A d \in ClientIds : BatchOf(d) < BatchOf(c) => Collected(d)
      /\ wfPc = "done" => Collected(c)

\* the second batch of a medium-priority request under way, two of its
\* clients at different steps of their unit, after the first batch was
\* collected
C15_Witness ==
  /\ input.priority = "medium" /\ batch = 2
  /\ \E c, d \in ClientIds :
       /\ BatchOf(c) = 2 /\ BatchOf(d) = 2
       /\ task[c].pc = "scraping" /\ task[d].pc = "analyzing"
  /\ \E c \in ClientIds : BatchOf(c) = 1 /\ task[c].pc = "fulfilled"

----------------------------------------------------------------------------
(* Claims about one client's platform loop *)

\* the client is through with its j-th platform: the unit was skipped, or its
\* entry is in the client's result list
Finished(c, j) ==
  LET key == BreakerKey(c, platforms[j])
  IN \/ units[key].open = 1
     \/ units[key].denied = 1
     \/ \E i \in DOMAIN task[c].clientResults :
          task[c].clientResults[i].platform = platforms[j]

\* C16: within one client the WorkUnits are processed one at a time in the
\* order of the platform list: when the breaker check of a platform starts,
\* every earlier platform of the client has been checked and is finished, its
\* scrape with all retries and sleeps and its analysis included; the retry
\* call in progress belongs to the one unit that is not finished.
C16_PlatformsInOrder ==
  \A c \in ClientIds :
    /\ \A j \in DOMAIN platforms :
         units[BreakerKey(c, platforms[j])].isOpen >= 1 =>
           /\ j <= task[c].pi
           /\ \A i \in 1..(j - 1) :
                /\ units[BreakerKey(c, platforms[i])].isOpen = 1
                /\ Finished(c, i)
    /\ task[c].pc \in {"scraping", "sleeping", "scraped", "analyzing"} =>
         /\ ~Finished(c, task[c].pi)
         /\ units[BreakerKey(c, platforms[task[c].pi])].scrapes
              = task[c].rt.calls
         /\ \A j \in DOMAIN platforms :
              j > task[c].pi =>
                units[BreakerKey(c, platforms[j])] = NoUnit

\* a client at the breaker check or beyond of its second platform after its
\* first platform took two scrapes, a sleep between them, and an analysis
C16_Witness ==
  \E c \in ClientIds :
    /\ Len(platforms) = 2
    /\ units[BreakerKey(c, platforms[2])].isOpen = 1
    /\ units[BreakerKey(c, platforms[1])].scrapes = 2
    /\ units[BreakerKey(c, platforms[1])].analyses = 1
    /\ task[c].pc = "scraping"

----------------------------------------------------------------------------
(* Claims about the records of a unit *)

\* recordFailure() is called at most once for a unit, whatever the number of
\* scrape attempts, and a breaker is OPEN only with failureThreshold failures
C17_PerUnit ==
  /\ \A key \in Keys : units[key].recF <= 1
  /\ \A key \in DOMAIN circuitBreakers :
       circuitBreakers[key].state = "OPEN" =>
         circuitBreakers[key].failureCount >= BreakerOptions.failureThreshold

\* the step that handles a thrown retry call: one recordFailure(), one error
\* entry for the unit, one failure entry in the client's result list
C17_Handled ==
  \A c \in ClientIds :
    /\ task[c].pc = "catch" /\ task'[c].pc # "catch"
    /\ task[c].rt.pc = "thrown"
    => LET platform == platforms[task[c].pi]
           key == BreakerKey(c, platform)
       IN /\ units'[key].recF = units[key].recF + 1
          /\ units'[key].recF = 1
          /\ Len(errors') = Len(errors) + 1
          /\ errors'[Len(errors')].clientId = c
          /\ errors'[Len(errors')].platform = platform
          /\ Len(task'[c].clientResults) = Len(task[c].clientResults) + 1
          /\ LET entry == task'[c].clientResults[Len(task'[c].clientResults)]
             IN entry.platform = platform /\ entry.success = FALSE

\* C17: when the retry-wrapped scrape of a dispatched unit fails (attempts
\* exhausted or a non-retryable error), recordFailure() is called once for the
\* unit, not once per attempt, one entry is appended to the error list and one
\* {platform, success: false, error} entry to the client's result list; a
\* breaker needs failureThreshold failed units to open.
C17_FailedUnit == [](C17_PerUnit) /\ [][C17_Handled]_vars

\* the entries of a result list that are about a platform
EntriesFor(list, platform) ==
  {i \in DOMAIN list : list[i].platform = platform}

\* the unit ended in an error: skipped for its breaker or for the limiter, or
\* handled by the catch block
EndedInError(key) ==
  /\ MovedPast(key)
  /\ units[key].open = 1 \/ units[key].denied = 1 \/ units[key].recF >= 1

\* C18: every WorkUnit that ends in an error, circuit-open and rate-limited
\* skips included, is recorded in the error list and as that platform's entry
\* of the client's result list; when execute returns, each client's result
\* list holds exactly one entry per targeted platform.
C18_ErrorInBothLists ==
  /\ \A key \in Keys :
       EndedInError(key) =>
         /\ ErrorsOf(key) # {}
         /\ \E i \in EntriesFor(task[key[1]].clientResults, key[2]) :
              ~task[key[1]].clientResults[i].success
  /\ wfPc = "done" =>
       \A i \in DOMAIN results :
         /\ Len(results[i].results) = Len(platforms)
         /\ \A j \in DOMAIN platforms :
              Cardinality(EntriesFor(results[i].results, platforms[j])) = 1

\* C19: when execute returns, results holds one per-client entry for every
\* targeted client, a client whose task threw included, carrying the
\* per-platform results that client had collected.
C19_EntryPerClient ==
  wfPc = "done" =>
    /\ Len(results) = Len(clients)
    /\ \A k \in DOMAIN clients :
         /\ results[k].clientId = clients[k]
         /\ results[k].results = task[clients[k]].clientResults

----------------------------------------------------------------------------
(* Claims about the call as a whole *)

\* the request is in the domain of the schema
InSchema ==
  /\ input.maxRetries \in 0..5
  /\ input.timeout \in 1000..300000
  /\ input.priority \in {"high", "medium", "low"}

\* no breaker created or changed, no rate-limit slot consumed, no scrape
NothingTouched ==
  /\ circuitBreakers \in PreOpened
  /\ \A p \in Platforms : rateLimiters[p] = <<>>
  /\ \A key \in Keys : units[key] = NoUnit
  /\ \A c \in ClientIds : task[c] = IdleTask

\* C20: execute throws only when the request fails validation or the client
\* list cannot be resolved or is empty, and then no breaker is created or
\* changed, no rate-limit slot is consumed and no scrape is invoked; once a
\* non-empty client list is resolved execute does not throw, always has a next
\* step until it returns, and returns an outcome with success: true.
C20_FatalOnly ==
  LET resolved == repoUp /\ repoClients # <<>>
  IN /\ ~InSchema \/ ~resolved =>
          wfPc \in {"called", "failed"} /\ NothingTouched
     /\ wfPc = "failed" => (~InSchema \/ ~resolved) /\ ~output.success
     /\ InSchema /\ resolved =>
          /\ wfPc \in {"called", "running", "done"}
          /\ wfPc # "done" => ENABLED Next
          /\ wfPc = "done" => output.success

\* execute returned success: true although a client's task was rejected and
\* another unit ended in an error
C20_Witness ==
  /\ wfPc = "done" /\ output.success
  /\ \E c \in ClientIds : task[c].pc = "rejected"
  /\ Len(errors) >= 2

\* execute threw for a request outside the schema while the repository held
\* clients
C20_WitnessInvalid ==
  /\ wfPc = "failed" /\ ~InSchema /\ repoUp /\ repoClients # <<>>

----------------------------------------------------------------------------
(* Claims about admission under concurrency, window edges and counters *)

\* the WorkUnits of a platform whose tryAcquire returned true
Admitted(platform) ==
  {BreakerKey(c, platform) :
     c \in {d \in ClientIds :
              /\ units[BreakerKey(d, platform)].acquire = 1
              /\ units[BreakerKey(d, platform)].denied = 0}}

\* the client's task is between its start and its settlement
Running(c) == task[c].pc \notin {"idle", "fulfilled", "rejected"}

\* C21: admission attempts of concurrently running clients on one platform's
\* limiter are serialized: under every interleaving each tryAcquire is one
\* atomic prune-check-append, so every admitted unit has its own timestamp in
\* the list, two clients never both take the last free slot, and the units
\* admitted for a platform inside one window never exceed its maxRequests.
C21_SerializedAdmission ==
  \A p \in Platforms :
    /\ Len(rateLimiters[p]) <= rateLimits[p].maxRequests
    /\ wfNow < StartClock + rateLimits[p].windowMs =>
         /\ Cardinality(Admitted(p)) = Len(rateLimiters[p])
         /\ Cardinality(Admitted(p)) <= rateLimits[p].maxRequests

\* two clients of one batch run concurrently, the later client of the batch
\* took the only slot of the platform and the earlier one was denied
C21_Witness ==
  /\ Len(repoClients) = 2 /\ Running(1) /\ Running(2)
  /\ rateLimits["chatgpt"].maxRequests = 1
  /\ units[<<2, "chatgpt">>].acquire = 1 /\ units[<<2, "chatgpt">>].denied = 0
  /\ units[<<1, "chatgpt">>].denied = 1

\* the oldest timestamp a denied call j counted
OldestCounted(j) ==
  LET live == LiveAdmissions(j)
      oldest == CHOOSE i \in live :
                  \A h \in live : rlCalls[i].at <= rlCalls[h].at
  IN rlCalls[oldest].at

\* call k is the first call after the denied call j that could be admitted:
\* every call between them was denied
NextAfterDenial(j, k) ==
  /\ j < k /\ ~rlCalls[j].ret
  /\ \A h \in (j + 1)..(k - 1) : ~rlCalls[h].ret

\* C22 as stated: tryAcquire keeps counting a timestamp t while
\* now - t <= windowMs and discards it only when now - t > windowMs, so a
\* limiter that has denied a request admits again once, and only once, its
\* oldest counted timestamp is older than windowMs.
C22_EdgeStillCounted ==
  \A j, k \in DOMAIN rlCalls :
    NextAfterDenial(j, k) =>
      (rlCalls[k].ret <=>
         rlCalls[k].at - OldestCounted(j) > rlOptions.windowMs)

\* C22, amended: tryAcquire keeps counting a timestamp t while
\* now - t < windowMs and discards it when now - t >= windowMs (a timestamp
\* aged exactly windowMs has left the window), so a limiter that has denied a
\* request admits again once, and only once, its oldest counted timestamp is
\* at least windowMs old.
C22_EdgeDiscarded ==
  /\ \A j, k \in DOMAIN rlCalls :
       NextAfterDenial(j, k) =>
         (rlCalls[k].ret <=>
            rlCalls[k].at - OldestCounted(j) >= rlOptions.windowMs)
  /\ rlCalls # <<>> =>
       LET now == rlCalls[Len(rlCalls)].at
       IN /\ \A i \in DOMAIN rlRequests :
               now - rlRequests[i] < rlOptions.windowMs
          /\ \A i \in DOMAIN rlCalls :
               rlCalls[i].ret /\ now - rlCalls[i].at < rlOptions.windowMs =>
                 \E h \in DOMAIN rlRequests : rlRequests[h] = rlCalls[i].at

\* a denied call was followed by a call made exactly windowMs after the oldest
\* counted timestamp, and that call was admitted
C22_Witness ==
  \E j, k \in DOMAIN rlCalls :
    /\ NextAfterDenial(j, k)
    /\ rlCalls[k].at - OldestCounted(j) = rlOptions.windowMs
    /\ rlCalls[k].ret

\* C23: failureCount is never negative; recordSuccess() on a CLOSED breaker
\* lowers failureCount by exactly 1 when it is positive and leaves it at 0
\* otherwise (one step down, not a reset), and the breaker stays CLOSED.
C23_SlowLeak ==
  /\ cb.failureCount >= 0
  /\ cbLast.op = "recordSuccess" /\ cbLast.pre.state = "CLOSED" =>
       /\ cb.state = "CLOSED"
       /\ cb.failureCount = IF cbLast.pre.failureCount > 0
                            THEN cbLast.pre.failureCount - 1
                            ELSE 0
       /\ cb = [cbLast.pre EXCEPT !.failureCount = cb.failureCount]

\* a success on a CLOSED breaker that had counted two failures left one of
\* them counted
C23_Witness ==
  /\ cbLast.op = "recordSuccess" /\ cbLast.pre.state = "CLOSED"
  /\ cbLast.pre.failureCount = 2
  /\ cb.failureCount = 1 /\ cb.state = "CLOSED"

----------------------------------------------------------------------------
(* Claims about retry's callback, delays and classification *)

\* the attempts of the retry call that failed and were followed by another
\* attempt (or by the sleep that precedes it)
FollowedUp ==
  {i \in DOMAIN rt.outcomes :
     i < Len(rt.outcomes) \/ rt.pc \in {"sleeping", "calling"}}

\* C24: retry calls onRetry exactly once for each failed attempt that is
\* followed by another attempt, with that attempt's error and number
\* (1, 2, ...), before the sleep and before the next invocation, and never
\* after the last attempt, a non-retryable error or a success; failing twice
\* then succeeding with attempts = 3 returns the success value with onRetry
\* called exactly twice, for attempts 1 and 2.
C24_OnRetryCalls ==
  /\ ~rt.options.onRetry => rt.onRetry = <<>>
  /\ rt.options.onRetry =>
       /\ DOMAIN rt.onRetry = FollowedUp
       /\ \A i \in DOMAIN rt.onRetry :
            /\ rt.onRetry[i].attempt = i
            /\ ~rt.outcomes[i].ok
            /\ rt.onRetry[i].error = rt.outcomes[i].error
            /\ i < rt.options.attempts
            /\ rt.options.retryCondition =>
                 IsRetryableError(rt.outcomes[i].error)
       /\ rt.pc = "sleeping" =>
            Len(rt.onRetry) = rt.calls /\ Len(rt.sleeps) = rt.calls
       /\ rt.pc = "calling" => Len(rt.onRetry) = rt.calls - 1
       /\ /\ rt.options.attempts = 3 /\ Len(rt.outcomes) = 3
          /\ ~rt.outcomes[1].ok /\ ~rt.outcomes[2].ok /\ rt.outcomes[3].ok
          => /\ rt.pc = "returned" /\ rt.result = rt.outcomes[3].value
             /\ Len(rt.onRetry) = 2
             /\ rt.onRetry[1].attempt = 1 /\ rt.onRetry[2].attempt = 2

\* with attempts = 3 the operation failed twice and then succeeded: retry
\* returned its value after two onRetry calls
C24_Witness ==
  /\ rt.options.attempts = 3 /\ rt.options.onRetry
  /\ Len(rt.outcomes) = 3
  /\ ~rt.outcomes[1].ok /\ ~rt.outcomes[2].ok /\ rt.outcomes[3].ok
  /\ rt.pc = "returned" /\ Len(rt.onRetry) = 2

\* C25: with a maxDelay given, the sleep after failed attempt k is
\* min(delay * k, maxDelay) for linear and min(delay * 2^(k-1), maxDelay) for
\* exponential backoff, so the delays never decrease with k and never exceed
\* maxDelay; with the orchestrator's options (exponential, 2000 ms, cap
\* 30000 ms) the delays after attempts 1..4 are 2000, 4000, 8000, 16000 ms.
C25_DelayFormula ==
  /\ rt.options.maxDelay # NoMaxDelay
       /\ rt.options.backoff \in {"linear", "exponential"} =>
       \A k \in DOMAIN rt.sleeps :
         /\ rt.sleeps[k] =
              IF rt.options.backoff = "linear"
              THEN Min(rt.options.delay * k, rt.options.maxDelay)
              ELSE Min(rt.options.delay * Pow2(k - 1), rt.options.maxDelay)
         /\ rt.sleeps[k] <= rt.options.maxDelay
         /\ k > 1 => rt.sleeps[k - 1] <= rt.sleeps[k]
  /\ \A k \in 1..4 :
       RetryDelay(ScrapeRetryOptions(MaxRetriesLimit), k) = 2000 * Pow2(k - 1)

\* the logged getResetTime() call came right after a tryAcquire() that
\* returned false, at the same clock value
RightAfterDenial ==
  /\ rlReset.calls >= 1 /\ rlReset.at > 0
  /\ ~rlCalls[rlReset.calls].ret
  /\ rlCalls[rlReset.calls].at = rlReset.at

\* C27 as stated: getResetTime() returns oldestTimestamp + windowMs - now,
\* with oldestTimestamp the smallest stored timestamp, and 0 when no timestamp
\* is stored; right after a tryAcquire() that returned false the result lies
\* in (0, windowMs].
C27_ResetTimeUnfloored ==
  /\ rlReset.at > 0 =>
       rlReset.ret = IF rlReset.requests = <<>> THEN 0
                     ELSE SeqMin(rlReset.requests) + rlOptions.windowMs
                          - rlReset.at
  /\ RightAfterDenial =>
       rlReset.ret > 0 /\ rlReset.ret <= rlOptions.windowMs

\* C27, amended: getResetTime() returns
\* max(0, oldestTimestamp + windowMs - now), with oldestTimestamp the smallest
\* stored timestamp, and 0 when no timestamp is stored, so it is never
\* negative; right after a tryAcquire() that returned false the result lies
\* in (0, windowMs].
C27_ResetTime ==
  /\ rlReset.at > 0 =>
       /\ rlReset.ret =
            IF rlReset.requests = <<>> THEN 0
            ELSE Max(0, SeqMin(rlReset.requests) + rlOptions.windowMs
                        - rlReset.at)
       /\ rlReset.ret >= 0
  /\ RightAfterDenial =>
       rlReset.ret > 0 /\ rlReset.ret <= rlOptions.windowMs

\* getResetTime() was called when the oldest stored timestamp had already left
\* the window, and returned 0
C27_Witness ==
  /\ rlReset.at > 0 /\ rlReset.requests # <<>>
  /\ SeqMin(rlReset.requests) + rlOptions.windowMs < rlReset.at
  /\ rlReset.ret = 0

\* getResetTime() was called right after a denial and returned a positive
\* waiting time
C27_WitnessDenied == RightAfterDenial /\ rlReset.ret > 0

----------------------------------------------------------------------------
(* Claims about the outcome's stats *)

\* the unit ended with a success: true entry in its client's result list
EndedInSuccess(key) ==
  \E i \in EntriesFor(task[key[1]].clientResults, key[2]) :
    task[key[1]].clientResults[i].success

\* C28: when execute returns, the stats' success count is the number of
\* WorkUnits that ended with a success: true entry, the failure count is the
\* number of WorkUnits that ended in an error, and the two add up to the
\* number of targeted WorkUnits (clients x platforms).
C28_StatsCountUnits ==
  wfPc = "done" =>
    /\ output.stats.successfulResults =
         Cardinality({key \in Targeted : EndedInSuccess(key)})
    /\ output.stats.failedResults =
         Cardinality({key \in Targeted : EndedInError(key)})
    /\ output.stats.successfulResults + output.stats.failedResults =
         Len(clients) * Len(platforms)

\* the error carries the signature in its message or in its code
Carries(error, signature) ==
  \/ Includes(error.message, signature)
  \/ error.code.kind = "string" /\ Includes(error.code.words, signature)

\* the error has an HTTP-style code in {429, 503, 504}: as a number, or as the
\* digits in its code or message
HasHttpCode(error) ==
  \/ error.code.kind = "number" /\ error.code.num \in {429, 503, 504}
  \/ \E signature \in {"429", "503", "504"} : Carries(error, signature)

\* C26: isRetryableError returns true iff the error carries ETIMEDOUT,
\* ECONNRESET or ECONNREFUSED, or an HTTP-style code in {429, 503, 504}, or
\* TIMEOUT, RATE_LIMIT or TEMPORARY_FAILURE in its message; every other error
\* is classified non-retryable (the call returns false).
C26_Classification ==
  cls.ret \notin {"pending", "idle"} =>
    LET claimed ==
          \/ \E signature \in {"ETIMEDOUT", "ECONNRESET", "ECONNREFUSED"} :
               Carries(cls.error, signature)
          \/ HasHttpCode(cls.error)
          \/ \E signature \in {"TIMEOUT", "RATE_LIMIT", "TEMPORARY_FAILURE"} :
               Carries(cls.error, signature)
    IN cls.ret = IF claimed THEN "true" ELSE "false"

----------------------------------------------------------------------------
(* Claims about the analyzer's scores *)

\* mention counts of the analysed response summed by sentiment label
LabelTotal(label) ==
  LET mentions == az.brandMentions
      idx == {i \in DOMAIN mentions : mentions[i].sentiment = label}
      counts == [i \in idx |-> mentions[i].count]
      RECURSIVE Add(_)
      Add(rest) == IF rest = {} THEN 0
                   ELSE LET i == CHOOSE x \in rest : TRUE
                        IN counts[i] + Add(rest \ {i})
  IN Add(idx)

BrandTotal ==
  LabelTotal("positive") + LabelTotal("neutral") + LabelTotal("negative")

VisibilityDone == az.pc \in {"visibility", "recommendations"}
SentimentDone ==
  az.pc \in {"sentiment", "position", "visibility", "recommendations"}

\* C29: the visibility score is the sum of mentionCount =
\* min(5 * totalBrandMentions, 25), positionScore = 25/20/15/10/5 for
\* beginning/early/middle/late/end, sentimentScore = 25/15/5 for
\* positive/neutral/negative and competitorComparison = 25/15/5 for brand
\* mentions greater than/equal to/fewer than competitor mentions; the total
\* always lies in [0, 100]; two brand mentions in the beginning bucket with
\* positive sentiment and no competitor mention give 10 + 25 + 25 + 25 = 85.
C29_VisibilityScore ==
  VisibilityDone =>
    LET f == az.visibility.factors
        competitors == TotalCount(az.competitorMentions)
        bucket == az.position.relativePosition
        label == az.sentiment.overall
    IN /\ f.mentionCount = Min(5 * BrandTotal, 25)
       /\ f.positionScore =
            CASE bucket = "beginning" -> 25 [] bucket = "early" -> 20
              [] bucket = "middle" -> 15 [] bucket = "late" -> 10
              [] bucket = "end" -> 5
       /\ f.sentimentScore =
            CASE label = "positive" -> 25 [] label = "neutral" -> 15
              [] label = "negative" -> 5
       /\ f.competitorComparison =
            IF BrandTotal > competitors THEN 25
            ELSE IF BrandTotal = competitors THEN 15 ELSE 5
       /\ az.visibility.score = f.mentionCount + f.positionScore
                                + f.sentimentScore + f.competitorComparison
       /\ az.visibility.score >= 0 /\ az.visibility.score <= 100
       /\ /\ BrandTotal = 2 /\ bucket = "beginning" /\ label = "positive"
          /\ competitors = 0
          => /\ az.visibility.score = 85
             /\ f = [mentionCount |-> 10, positionScore |-> 25,
                     sentimentScore |-> 25, competitorComparison |-> 25]

\* a brand found twice near the start of the response, judged positive, with
\* no competitor found, scored 85
C29_Witness ==
  /\ VisibilityDone
  /\ Len(az.brandMentions) = 1 /\ az.brandMentions[1].count = 2
  /\ az.position.relativePosition = "beginning"
  /\ az.sentiment.overall = "positive"
  /\ az.competitorMentions = <<>>
  /\ az.visibility.score = 85

\* six brand mentions: the mention count factor is held at 25
C29_WitnessCapped ==
  VisibilityDone /\ BrandTotal = 6 /\ az.visibility.factors.mentionCount = 25

\* C30: with positive, neutral and negative the mention counts summed by
\* label and total their sum, total = 0 gives score 0 and label neutral;
\* otherwise score = (positive - negative) / total, which lies in [-1, 1], and
\* the label is positive iff score > 0.3, negative iff score < -0.3 and
\* neutral otherwise.
C30_OverallSentiment ==
  SentimentDone =>
    LET positive == LabelTotal("positive")
        negative == LabelTotal("negative")
        total == BrandTotal
        score == az.sentiment.score
    IN /\ total = 0 => score.num = 0 /\ az.sentiment.overall = "neutral"
       /\ total > 0 =>
            /\ score.num * total = (positive - negative) * score.den
            /\ az.sentiment.overall = "positive" <=>
                 10 * (positive - negative) > 3 * total
            /\ az.sentiment.overall = "negative" <=>
                 10 * (positive - negative) < -3 * total
       /\ az.sentiment.overall \in Sentiments
       /\ score.den > 0
       /\ -score.den <= score.num /\ score.num <= score.den

\* one positive mention among two neutral ones: score 1/3, label positive
C30_Witness ==
  /\ SentimentDone
  /\ LabelTotal("positive") = 1 /\ LabelTotal("neutral") = 2
  /\ LabelTotal("negative") = 0
  /\ az.sentiment.score = [num |-> 1, den |-> 3]
  /\ az.sentiment.overall = "positive"

\* the position of the first occurrence of an item in a list, 0 when absent
IndexOf(list, item) ==
  IF \E i \in DOMAIN list : list[i] = item
  THEN CHOOSE i \in DOMAIN list :
         list[i] = item /\ \A j \in 1..(i - 1) : list[j] # item
  ELSE 0

\* C31: for a response with no brand mention and no competitor mention the
\* analysis yields the position sentinel (averagePosition -1, relativePosition
\* 'end'), mentionCount 0, positionScore 5, sentimentScore 15 (neutral),
\* competitorComparison 15 (tie), visibility total 35, and recommendations
\* that include the 'critical: no brand mentions' item after the reposition
\* advice triggered by relativePosition 'end'.
C31_ZeroMentions ==
  az.pc = "recommendations" /\ az.brandMentions = <<>>
      /\ az.competitorMentions = <<>> =>
    /\ az.position.averagePosition = [num |-> -1, den |-> 1]
    /\ az.position.relativePosition = "end"
    /\ az.sentiment.overall = "neutral"
    /\ az.visibility.factors =
         [mentionCount |-> 0, positionScore |-> 5, sentimentScore |-> 15,
          competitorComparison |-> 15]
    /\ az.visibility.score = 35
    /\ IndexOf(az.recommendations, NoMentionsAdvice[1]) > 0
    /\ IndexOf(az.recommendations, RepositionAdvice[1]) > 0
    /\ IndexOf(az.recommendations, RepositionAdvice[1])
         < IndexOf(az.recommendations, NoMentionsAdvice[1])

\* the analysis of a response that mentions no brand and no competitor has
\* produced its recommendations
C31_Witness ==
  /\ az.pc = "recommendations"
  /\ az.brandMentions = <<>> /\ az.competitorMentions = <<>>
  /\ az.visibility.score = 35 /\ Len(az.recommendations) = 4

----------------------------------------------------------------------------
(* Claims about mention strength *)

\* C32: the mention strength of a brand is 50, plus 10 if any of its contexts
\* matches a strong-endorsement pattern, plus 5 if the brand opens a context
\* or is its grammatical subject, plus 5 if a comparison-win pattern appears,
\* capped at 100; each bonus is granted at most once per brand however many
\* contexts match, so the strength lies in {50, 55, 60, 65, 70}.
C32_StrengthOncePerBrand ==
  ms.pc \in {"returned", "thrown"} =>
    LET any(P(_)) == \E i \in DOMAIN ms.contexts : P(ms.contexts[i])
        endorsed(c) == c.endorses
        opened(c) == c.opens # "no"
        won(c) == c.wins
    IN /\ ms.pc = "returned"
       /\ ms.strength = Min(MaxStrength,
                            BaseStrength + (IF any(endorsed) THEN 10 ELSE 0)
                            + (IF any(opened) THEN 5 ELSE 0)
                            + (IF any(won) THEN 5 ELSE 0))
       /\ ms.strength \in {50, 55, 60, 65, 70}

----------------------------------------------------------------------------
(* Claims about the breaker's reachable states and HALF_OPEN probes *)

\* C33: in every reachable state of a breaker with failureThreshold >= 1,
\* under any sequence of isOpen / recordSuccess / recordFailure calls, the
\* state is CLOSED iff failureCount < failureThreshold (OPEN and HALF_OPEN
\* imply failureCount >= failureThreshold), OPEN implies that lastFailureTime
\* is set, and the half-open success counter is 0 outside HALF_OPEN and
\* strictly below the required number of successes inside it.
C33_StateInvariant ==
  cbOptions.failureThreshold >= 1 =>
    /\ cb.state \in {"CLOSED", "OPEN", "HALF_OPEN"}
    /\ cb.state = "CLOSED" <=> cb.failureCount < cbOptions.failureThreshold
    /\ cb.state = "OPEN" =>
         cb.lastFailureTime # Null /\ cb.lastFailureTime <= cbNow
    /\ cb.state # "HALF_OPEN" => cb.halfOpenAttempts = 0
    /\ cb.state = "HALF_OPEN" =>
         /\ cb.halfOpenAttempts >= 0
         /\ cb.halfOpenAttempts < RequiredSuccesses(cbOptions)

\* a HALF_OPEN breaker that has counted one of the two successes it needs
C33_Witness ==
  /\ cbNow > 0 /\ cb.state = "HALF_OPEN"
  /\ cbOptions.halfOpenRequests = 2 /\ cb.halfOpenAttempts = 1
  /\ cb.failureCount >= cbOptions.failureThreshold

\* C34: HALF_OPEN does not limit the number of probe requests: on a HALF_OPEN
\* breaker every isOpen() returns false and leaves the breaker unchanged, so
\* only a recordSuccess or recordFailure ends the period and several requests
\* can be dispatched during it; a recordSuccess() arriving while the breaker
\* is OPEN changes nothing.
C34_HalfOpenUnlimited ==
  /\ cbLast.op = "isOpen" /\ cbLast.pre.state = "HALF_OPEN" =>
       ~cbLast.ret /\ cb = cbLast.pre
  /\ cbLast.op = "recordSuccess" /\ cbLast.pre.state = "OPEN" =>
       cb = cbLast.pre
  /\ cbLast.pre.state = "HALF_OPEN" /\ cb.state # "HALF_OPEN" =>
       cbLast.op \in {"recordSuccess", "recordFailure"}

\* a second request was let through in a HALF_OPEN period in which nothing
\* had been recorded yet
C34_Witness ==
  /\ cbLast.op = "isOpen" /\ ~cbLast.ret
  /\ cbLast.pre.state = "HALF_OPEN" /\ cbLast.pre.halfOpenAttempts = 0
  /\ cb.state = "HALF_OPEN"

\* a success was recorded on an OPEN breaker, which stayed as it was
C34_WitnessOpen ==
  /\ cbLast.op = "recordSuccess" /\ cbLast.pre.state = "OPEN"
  /\ cb.state = "OPEN"

----------------------------------------------------------------------------
(* Claims about slots, accounting and breakers over a whole call *)

\* the scraper invocations of the units of one platform
ScrapesAgainst(platform) ==
  SumScrapes({BreakerKey(c, platform) : c \in ClientIds})

SuccessEntries ==
  {e \in (DOMAIN results) \X (1..Len(platforms)) :
     /\ e[2] \in DOMAIN results[e[1]].results
     /\ results[e[1]].results[e[2]].success}

\* the outcome has a success: true entry for the unit
SucceededInOutcome(key) ==
  \E e \in SuccessEntries :
    /\ results[e[1]].clientId = key[1]
    /\ results[e[1]].results[e[2]].platform = key[2]

\* C36: when execute returns, every targeted WorkUnit is accounted for
\* exactly once: its client's result list has a success: true entry for the
\* platform, or the error list has exactly one entry naming the client and
\* the platform, never both and never neither; so the success: true entries
\* and the error entries add up to clients x platforms.
C36_AccountedOnce ==
  wfPc = "done" =>
    /\ \A key \in Targeted :
         \/ SucceededInOutcome(key) /\ ErrorsOf(key) = {}
         \/ ~SucceededInOutcome(key) /\ Cardinality(ErrorsOf(key)) = 1
    /\ Cardinality(SuccessEntries) + Len(errors)
         = Len(clients) * Len(platforms)

\* one step of a call, seen from the breaker of one key: the key's breaker is
\* created as a new CLOSED breaker by the key's first isOpen() check and is
\* never dropped; a check that finds it OPEN skips the unit with a
\* circuit-open error while no more than resetTimeout has passed since its
\* last failure, and lets the unit through once more has passed; a failure
\* recorded for the key leaves every other key's breaker as it was
BreakerStep(key) ==
  /\ key \in DOMAIN circuitBreakers => key \in DOMAIN circuitBreakers'
  /\ key \notin DOMAIN circuitBreakers /\ key \in DOMAIN circuitBreakers' =>
       /\ units[key].isOpen = 0 /\ units'[key].isOpen = 1
       /\ circuitBreakers'[key] = NewBreaker
  /\ /\ key \in DOMAIN circuitBreakers
     /\ units'[key].isOpen = units[key].isOpen + 1
     /\ circuitBreakers[key].state = "OPEN"
     => IF wfNow - circuitBreakers[key].lastFailureTime
             <= BreakerOptions.resetTimeout
        THEN /\ circuitBreakers'[key] = circuitBreakers[key]
             /\ units'[key].open = units[key].open + 1
             /\ errors' = Append(errors,
                                 ErrorEntry(key[1], key[2],
                                            "Circuit breaker open",
                                            NoResetTime))
             /\ task'[key[1]].pc = "loop"
             /\ task'[key[1]].pi = task[key[1]].pi + 1
        ELSE /\ circuitBreakers'[key].state = "HALF_OPEN"
             /\ units'[key].open = units[key].open
             /\ errors' = errors
             /\ task'[key[1]].pc = "acquire"
  /\ units'[key].recF > units[key].recF =>
       \A other \in Keys \ {key} :
         /\ other \in DOMAIN circuitBreakers' => other \in DOMAIN circuitBreakers
         /\ other \in DOMAIN circuitBreakers =>
              circuitBreakers'[other] = circuitBreakers[other]

\* C37: a breaker is created lazily, CLOSED with failureCount 0, on the first
\* reference to its WorkUnit key and persists across execute invocations: one
\* opened by failures of earlier invocations makes a later invocation skip
\* the unit with a circuit-open error (no slot, no scrape) until resetTimeout
\* (60000 ms) has passed since its last failure, and a failure in one
\* WorkUnit never changes the breaker of another key.
C37_BreakersPersist ==
  /\ [](\A key \in Keys :
          /\ units[key].isOpen >= 1 => key \in DOMAIN circuitBreakers
          /\ units[key].open >= 1 =>
               units[key].acquire = 0 /\ units[key].scrapes = 0)
  /\ [][\A key \in Keys : BreakerStep(key)]_vars

\* the breaker of <<1, chatgpt>>, opened 60000 ms before the call, made the
\* call skip the unit; the failure of the client's next unit was counted on
\* that unit's new breaker and left the opened one as it was
C37_Witness ==
  /\ Len(repoClients) >= 1 /\ Len(platforms) = 2
  /\ units[<<1, "chatgpt">>].open = 1
  /\ circuitBreakers[<<1, "chatgpt">>]
       = OpenedBreaker(StartClock - BreakerOptions.resetTimeout)
  /\ units[<<1, "perplexity">>].recF = 1
  /\ <<1, "perplexity">> \in DOMAIN circuitBreakers
  /\ circuitBreakers[<<1, "perplexity">>].failureCount = 1

\* the breaker of <<1, chatgpt>>, opened 60001 ms before the call, let the
\* unit through as a HALF_OPEN probe
C37_WitnessElapsed ==
  /\ Len(repoClients) >= 1
  /\ units[<<1, "chatgpt">>].isOpen = 1 /\ units[<<1, "chatgpt">>].open = 0
  /\ <<1, "chatgpt">> \in DOMAIN circuitBreakers
  /\ circuitBreakers[<<1, "chatgpt">>].state = "HALF_OPEN"
  /\ units[<<1, "chatgpt">>].scrapes = 1

\* C38: once the client lookup has returned its clients, and with every
\* scrape and analysis invocation settling, execute eventually returns its
\* outcome: every batch has been started and settled, each retry loop ends
\* after at most maxRetries invocations, and no WorkUnit is processed more
\* than once in the call.
C38_Terminates ==
  /\ (wfPc = "running") ~>
       /\ wfPc = "done" /\ output.success
       /\ batch = Len(ClientBatches)
       /\ \A c \in ClientIds : task[c].pc \in {"fulfilled", "rejected"}
  /\ [](\A key \in Keys :
          /\ units[key].isOpen <= 1 /\ units[key].acquire <= 1
          /\ units[key].scrapes <= input.maxRetries
          /\ units[key].recS <= 1 /\ units[key].recF <= 1
          /\ units[key].analyses <= 1)

\* execute returned after two batches, one of its units having been scraped
\* twice
C38_Witness ==
  /\ wfPc = "done" /\ batch = 2
  /\ \E key \in Keys : units[key].scrapes = 2

\* the request that differs from the call's only in retryOnFailure
TwinRequest == [input EXCEPT !.retryOnFailure = ~@]

\* C39: the behaviour of execute does not depend on request.retryOnFailure:
\* from the same breakers, limiters and progress and against the same scrape
\* and analysis outcomes, every step the call takes for its request is the
\* step it takes for the request with retryOnFailure flipped, so the two
\* calls make the same scrape attempts and yield the same results and
\* errors; the attempts follow maxRetries and the error classification only.
C39_IgnoresRetryOnFailure ==
  /\ [](\A key \in Keys : units[key].scrapes <= TwinRequest.maxRetries)
  /\ [][WFNextFor(TwinRequest)]_vars

\* a call whose request says retryOnFailure: false has scraped a unit a
\* second time after a retryable failure
C39_Witness ==
  /\ ~input.retryOnFailure
  /\ \E key \in Keys : units[key].scrapes = 2 /\ units[key].recS = 1

====
